---- MODULE Spec2Model ----
(***************************************************************************)
(* The watch-program cache of typescript-estree                            *)
(* (createProjectProgram.ts / getWatchProgramsForProjects.ts).             *)
(*                                                                         *)
(* The module-level maps of the source are the variables; every exported   *)
(* function is one action that runs to completion.  The TypeScript watch   *)
(* session behind ts.createWatchProgram is modelled by the Session*        *)
(* operators: it keeps a parsed descriptor, a root file list, the files of *)
(* the current program, a pending reload level and a set of files to       *)
(* re-read, and it talks to the cache only through the hooks the source    *)
(* installs (readFile, watchFile, watchDirectory, afterProgramCreate).     *)
(***************************************************************************)
EXTENDS Integers, Sequences, FiniteSets, TLC

VARIABLES
    knownWatchProgramMap,               \* sequence of [key, watch], in insertion order
    fileWatchCallbackTrackingMap,       \* canonical path -> set of callbacks
    folderWatchCallbackTrackingMap,     \* canonical path -> set of callbacks
    programFileListCache,               \* descriptor -> set of canonical paths
    tsconfigLastModifiedTimestampCache, \* descriptor -> mtime
    parsedFilesSeenHash,                \* canonical path -> hash
    currentLintOperationState,          \* [code, filePath]
    disk,                               \* backing store: path -> content or undefined
    mtime,                              \* backing store: descriptor -> modification time
    noInvalidation,                     \* process.env.TSESTREE_NO_INVALIDATION === 'true'
    edits,                              \* number of backing-store mutations so far
    handles,                            \* watcher handles issued to a direct client of the hooks
    op,                                 \* the last operation and its arguments
    log,                                \* what the last operation did, in order
    ret                                 \* how the last operation ended

vars == <<knownWatchProgramMap, fileWatchCallbackTrackingMap,
          folderWatchCallbackTrackingMap, programFileListCache,
          tsconfigLastModifiedTimestampCache, parsedFilesSeenHash,
          currentLintOperationState, disk, mtime, noInvalidation, edits,
          handles, op, log, ret>>

(***************************************************************************)
(* Bounds                                                                  *)
(***************************************************************************)
MaxEdits == 1
MaxDeadCallbacks == 3
MaxHandles == 2

(***************************************************************************)
(* The universe: a small directory tree, two descriptors, two sources      *)
(***************************************************************************)
Root == <<>>
DirP == <<"p">>
DirS == <<"p", "s">>
DirT == <<"p", "t">>
FileA == <<"p", "s", "a.ts">>
FileB == <<"p", "t", "b.ts">>
TsconfigA == <<"p", "tsconfig.json">>
TsconfigB == <<"p", "tsconfig.b.json">>

SourceFiles == {FileA, FileB}
Descriptors == {TsconfigA, TsconfigB}
FileOrder == <<FileA, FileB>>
NoPath == <<"">>

undefined == "undefined"
SourceTexts == {"v1"}
\* descriptor texts an edit can write
ConfigTexts == {"P", "bad"}
Codes == {[kind |-> "string", text |-> "v1"],
          [kind |-> "SourceFile", text |-> "v2"]}
\* parseSettings.projects of a request, in iteration order
ProjectLists == {<<TsconfigA>>, <<TsconfigA, TsconfigB>>, <<TsconfigB, TsconfigA>>}

\* include patterns of a descriptor text, as the directories they cover
CfgInclude(c) ==
    CASE c = "S" -> {DirS}
      [] c = "T" -> {DirT}
      [] c = "P" -> {DirP}
      [] OTHER -> {DirS}

\* a descriptor text whose parse yields error diagnostics
CfgHasErrors(c) == c = "bad"

Dead == <<"dead">>
Ext == <<"ext">>

(***************************************************************************)
(* Helpers                                                                 *)
(***************************************************************************)
EmptyMap == [x \in {} |-> x]
Has(m, k) == k \in DOMAIN m
Put(m, k, v) == [x \in (DOMAIN m) \cup {k} |-> IF x = k THEN v ELSE m[x]]
Del(m, k) == [x \in (DOMAIN m) \ {k} |-> m[x]]

IsPrefix(a, b) == Len(a) <= Len(b) /\ SubSeq(b, 1, Len(a)) = a

Ev(e, d, p, q, n, s) == [e |-> e, d |-> d, p |-> p, q |-> q, n |-> n, s |-> s]
Emit(st, ev) == [st EXCEPT !.log = Append(@, ev)]

\* path helpers of ./shared
getCanonicalFileName(filePath) ==
    IF Len(filePath) > 0 /\ filePath[Len(filePath)] = ""
    THEN SubSeq(filePath, 1, Len(filePath) - 1)
    ELSE filePath

canonicalDirname(p) ==
    IF Len(p) = 0 THEN p ELSE SubSeq(p, 1, Len(p) - 1)

createHash(content) == <<"sha", content>>

getCodeText(code) == code.text

\* callbacks of a set in the order they are visited
RECURSIVE CbSeq(_)
CbSeq(S) ==
    IF S = {} THEN <<>>
    ELSE LET c == CHOOSE x \in S : \A y \in S : x.id <= y.id
         IN <<c>> \o CbSeq(S \ {c})

FilesIn(S) == SelectSeq(FileOrder, LAMBDA f : f \in S)

AllCallbacks(st) ==
    UNION {st.fileCbs[k] : k \in DOMAIN st.fileCbs}
    \cup UNION {st.folderCbs[k] : k \in DOMAIN st.folderCbs}

UsedIds(st) == {c.id : c \in AllCallbacks(st)} \cup {h.w.cb.id : h \in handles}

NextId(st) ==
    LET used == UsedIds(st)
    IN CHOOSE n \in 1..(Cardinality(used) + 1) :
          n \notin used /\ \A m \in 1..(n - 1) : m \in used

(***************************************************************************)
(* knownWatchProgramMap as an insertion-ordered map                        *)
(***************************************************************************)
KnownKeys(known) == {known[i].key : i \in 1..Len(known)}
KnownIndex(known, d) == CHOOSE i \in 1..Len(known) : known[i].key = d
KnownGet(known, d) == known[KnownIndex(known, d)].watch
KnownSet(known, d, w) ==
    IF d \in KnownKeys(known)
    THEN [known EXCEPT ![KnownIndex(known, d)].watch = w]
    ELSE Append(known, [key |-> d, watch |-> w])

SetWatch(st, d, w) == [st EXCEPT !.known = KnownSet(@, d, w)]

NullProgram == [d |-> NoPath, roots |-> {}, srcs |-> {}]

\* The working copy of the module state an operation transforms.
Cur ==
    [known |-> knownWatchProgramMap,
     fileCbs |-> fileWatchCallbackTrackingMap,
     folderCbs |-> folderWatchCallbackTrackingMap,
     cache |-> programFileListCache,
     ts |-> tsconfigLastModifiedTimestampCache,
     hashes |-> parsedFilesSeenHash,
     cur |-> currentLintOperationState,
     log |-> <<>>,
     status |-> "ok",
     results |-> <<>>,
     hasCallback |-> FALSE,
     mip |-> [kind |-> "none", prog |-> NullProgram]]

Threw(st) == st.status = "throw"

(***************************************************************************)
(* saveWatchCallback and the handle it returns                             *)
(***************************************************************************)
saveWatchCallback(trackingMap, fileName, callback) ==
    LET normalizedFileName == getCanonicalFileName(fileName)
        watchers == IF Has(trackingMap, normalizedFileName)
                    THEN trackingMap[normalizedFileName]
                    ELSE {}
    IN Put(trackingMap, normalizedFileName, watchers \cup {callback})

\* the FileWatcher returned for (fileName, callback); detached is set once
\* the Set it closes over is no longer the one in the tracking map
WatcherOf(fileName, callback) ==
    [path |-> getCanonicalFileName(fileName), cb |-> callback, detached |-> FALSE]

\* lines 197-201 dropping the path's whole set instead of one callback
closeDropsPath(trackingMap, watcher) ==
    IF Has(trackingMap, watcher.path)
    THEN [trackingMap EXCEPT ![watcher.path] = {}]
    ELSE trackingMap

close(trackingMap, watcher) ==
    IF watcher.detached \/ ~Has(trackingMap, watcher.path)
    THEN trackingMap
    ELSE [trackingMap EXCEPT ![watcher.path] = @ \ {watcher.cb}]

NewCallback(st, owner, kind) == [id |-> NextId(st), owner |-> owner, kind |-> kind]

WatchFile(st, fileName, owner, kind) ==
    [st EXCEPT !.fileCbs = saveWatchCallback(@, fileName, NewCallback(st, owner, kind))]

WatchDirectory(st, dirName, owner) ==
    [st EXCEPT !.folderCbs = saveWatchCallback(@, dirName, NewCallback(st, owner, "dir"))]

RECURSIVE CloseEach(_, _, _)
CloseEach(trackingMap, path, cbs) ==
    IF cbs = <<>> THEN trackingMap
    ELSE CloseEach(close(trackingMap, WatcherOf(path, Head(cbs))), path, Tail(cbs))

Owned(trackingMap, path, owner) ==
    IF Has(trackingMap, path)
    THEN {c \in trackingMap[path] : c.owner = owner}
    ELSE {}

CloseFile(st, path, owner) ==
    [st EXCEPT !.fileCbs = CloseEach(@, path, CbSeq(Owned(@, path, owner)))]

CloseDirectory(st, path, owner) ==
    [st EXCEPT !.folderCbs = CloseEach(@, path, CbSeq(Owned(@, path, owner)))]

(***************************************************************************)
(* clearWatchCaches                                                        *)
(***************************************************************************)
\* lines 170-177 without line 171: the registry survives
clearWatchCachesKeepsUnits(st) ==
    [st EXCEPT !.fileCbs = EmptyMap,
               !.folderCbs = EmptyMap,
               !.hashes = EmptyMap,
               !.cache = EmptyMap,
               !.ts = EmptyMap]

\* lines 170-177 without line 171 and lines 174-176: the subscription
\* tables are emptied, the registry and the caches are not
clearWatchCachesDropsSubscriptions(st) ==
    [st EXCEPT !.fileCbs = EmptyMap,
               !.folderCbs = EmptyMap]

clearWatchCaches(st) ==
    [st EXCEPT !.known = <<>>,
               !.fileCbs = EmptyMap,
               !.folderCbs = EmptyMap,
               !.hashes = EmptyMap,
               !.cache = EmptyMap,
               !.ts = EmptyMap]

(***************************************************************************)
(* diagnosticReporter, the read hook, updateCachedFileList                 *)
(***************************************************************************)
diagnosticReporter(st) == [Emit(st, Ev("throw", NoPath, NoPath, NoPath, 0, "diagnostic"))
                             EXCEPT !.status = "throw"]

\* what watchCompilerHost.readFile returns for filePathIn
\* lines 379-382 without the overlay: always the copy on disk
readFileContentFromDisk(st, filePathIn) == disk[getCanonicalFileName(filePathIn)]

readFileContent(st, filePathIn) ==
    LET filePath == getCanonicalFileName(filePathIn)
    IN IF filePath = st.cur.filePath
       THEN getCodeText(st.cur.code)
       ELSE disk[filePath]

\* watchCompilerHost.readFile: the state it leaves
readFile(st, filePathIn) ==
    LET filePath == getCanonicalFileName(filePathIn)
        fileContent == readFileContent(st, filePathIn)
        s1 == IF fileContent # undefined
              THEN [st EXCEPT !.hashes = Put(@, filePath, createHash(fileContent))]
              ELSE st
    IN Emit(s1, Ev("read", NoPath, filePath, NoPath, 0, fileContent))

RECURSIVE ReadAll(_, _)
ReadAll(st, files) ==
    IF files = <<>> THEN st ELSE ReadAll(readFile(st, Head(files)), Tail(files))

updateCachedFileList(st, tsconfigPath, program) ==
    LET fileList == {getCanonicalFileName(f) : f \in program.roots}
    IN Emit([st EXCEPT !.cache = Put(@, tsconfigPath, fileList)],
            Ev("cacheSet", tsconfigPath, NoPath, NoPath, 0, ""))

cacheDelete(st, tsconfigPath) ==
    Emit([st EXCEPT !.cache = Del(@, tsconfigPath)],
         Ev("cacheDelete", tsconfigPath, NoPath, NoPath, 0, ""))

(***************************************************************************)
(* The provider session (ts.createWatchProgram), seen through its hooks    *)
(***************************************************************************)
\* root file names a descriptor text selects from the backing store
ScanRoots(c) ==
    {f \in SourceFiles :
        disk[f] # undefined /\ \E dir \in CfgInclude(c) : IsPrefix(dir, canonicalDirname(f))}

\* what a callback registered by a session does to that session
SessionNotified(unit, cbKind, arg) ==
    CASE cbKind = "config" -> [unit EXCEPT !.level = "Full"]
      [] cbKind = "source" -> [unit EXCEPT !.stale = @ \cup {getCanonicalFileName(arg)}]
      [] cbKind = "dir" -> [unit EXCEPT !.level = IF @ = "Full" THEN "Full" ELSE "RootNames"]
      [] OTHER -> unit

\* cb(arg, eventKind) for one callback found under `key` of a tracking map
Invoke(st, e, key, cb, arg, eventKind) ==
    IF cb.owner \in KnownKeys(st.known)
    THEN SetWatch(Emit(st, Ev(e, cb.owner, key, arg, cb.id, eventKind)), cb.owner,
                  SessionNotified(KnownGet(st.known, cb.owner), cb.kind, arg))
    ELSE Emit(st, Ev(e, cb.owner, key, arg, cb.id, eventKind))

RECURSIVE InvokeEach(_, _, _, _, _, _)
InvokeEach(st, e, key, cbs, arg, eventKind) ==
    IF cbs = <<>> THEN st
    ELSE InvokeEach(Invoke(st, e, key, Head(cbs), arg, eventKind),
                    e, key, Tail(cbs), arg, eventKind)

\* fileWatchCallbacks.forEach(cb => cb(arg, eventKind))
FireFile(st, key, arg, eventKind) ==
    InvokeEach(st, "fireFile", key, CbSeq(st.fileCbs[key]), arg, eventKind)

RECURSIVE WatchFiles(_, _, _)
WatchFiles(st, files, owner) ==
    IF files = <<>> THEN st
    ELSE WatchFiles(WatchFile(st, Head(files), owner, "source"), Tail(files), owner)

RECURSIVE CloseFiles(_, _, _)
CloseFiles(st, files, owner) ==
    IF files = <<>> THEN st
    ELSE CloseFiles(CloseFile(st, Head(files), owner), Tail(files), owner)

DirSeq(S) == SelectSeq(<<DirP, DirS, DirT>>, LAMBDA x : x \in S)

RECURSIVE WatchDirs(_, _, _)
WatchDirs(st, dirs, owner) ==
    IF dirs = <<>> THEN st
    ELSE WatchDirs(WatchDirectory(st, Head(dirs), owner), Tail(dirs), owner)

RECURSIVE CloseDirs(_, _, _)
CloseDirs(st, dirs, owner) ==
    IF dirs = <<>> THEN st
    ELSE CloseDirs(CloseDirectory(st, Head(dirs), owner), Tail(dirs), owner)

\* watchCompilerHost.afterProgramCreate
afterProgramCreate(st, configText) ==
    IF CfgHasErrors(configText) THEN diagnosticReporter(st) ELSE st

\* a.ts imports ../t/b.ts: a program that holds a.ts also holds b.ts if it can be read
Imports(f) == IF f = FileA THEN {FileB} ELSE {}

\* the files a program over unit.roots may hold
Candidates(unit) == unit.roots \cup UNION {Imports(f) : f \in unit.roots}

\* candidates the next program has to read: new ones and invalidated ones
NeedsRead(unit) == {f \in Candidates(unit) : f \notin unit.srcs \/ f \in unit.stale}

Readable(st, unit, f) == f \in NeedsRead(unit) => readFileContent(st, f) # undefined

\* the source files of the program built over unit.roots
BuiltSources(st, unit) ==
    {f \in Candidates(unit) :
        /\ Readable(st, unit, f)
        /\ \/ f \in unit.roots
           \/ \E g \in unit.roots : f \in Imports(g) /\ Readable(st, unit, g)}

\* the paths a session holds a file watcher for
Watched(roots, srcs) == roots \cup srcs

\* whether the session's current program can be kept as it is
ProgramUpToDate(unit, oldRoots) ==
    /\ unit.roots = oldRoots
    /\ unit.stale \cap unit.srcs = {}
    /\ \A f \in Candidates(unit) \ unit.srcs : disk[f] = undefined

\* Build the program for unit.roots unless the current one is up to date:
\* new and invalidated files are read through the read hook, files that
\* left the program lose their watcher, new ones get one.
SessionSynchronize(st, unit, oldRoots, owner, force) ==
    IF ~force /\ ProgramUpToDate(unit, oldRoots)
    THEN [st |-> st, unit |-> [unit EXCEPT !.stale = {}]]
    ELSE [st |-> afterProgramCreate(
                   WatchFiles(
                     CloseFiles(ReadAll(st, FilesIn(NeedsRead(unit))),
                                FilesIn(Watched(oldRoots, unit.srcs)
                                        \ Watched(unit.roots, BuiltSources(st, unit))),
                                owner),
                     FilesIn(Watched(unit.roots, BuiltSources(st, unit))
                             \ Watched(oldRoots, unit.srcs)),
                     owner),
                   unit.cfg),
          unit |-> [unit EXCEPT !.srcs = BuiltSources(st, unit), !.stale = {}]]

\* the ts.Program a pull hands out: an immutable snapshot
ProgramOf(d, unit) == [d |-> d, roots |-> unit.roots, srcs |-> unit.srcs]
Program(st, d) == ProgramOf(d, KnownGet(st.known, d))

SessionStore(r, d) == SetWatch(r.st, d, r.unit)

\* after a reload of the descriptor: watch the directories it now includes
SessionRewatch(st, d, oldDirs, newDirs) ==
    IF Threw(st) THEN st
    ELSE WatchDirs(CloseDirs(st, DirSeq(oldDirs \ newDirs), d),
                   DirSeq(newDirs \ oldDirs), d)

\* a pending full reload: the descriptor is parsed again
SessionReloadConfig(st, d, unit, text) ==
    IF text = undefined
    THEN diagnosticReporter(SetWatch(st, d, [unit EXCEPT !.level = "Update"]))
    ELSE SessionRewatch(
           SessionStore(
             SessionSynchronize(st,
                                [unit EXCEPT !.level = "Update", !.cfg = text,
                                             !.roots = ScanRoots(text)],
                                unit.roots, d, TRUE),
             d),
           d, CfgInclude(unit.cfg), CfgInclude(text))

SessionUpdate(st, d, unit) ==
    CASE unit.level = "Full" ->
           SessionReloadConfig(
             readFile(Emit(st, Ev("parse", d, NoPath, NoPath, 0, "")), d),
             d, unit, readFileContent(st, d))
      [] unit.level = "RootNames" ->
           SessionStore(
             SessionSynchronize(st,
                                [unit EXCEPT !.level = "Update",
                                             !.roots = ScanRoots(unit.cfg)],
                                unit.roots, d, FALSE),
             d)
      [] OTHER ->
           SessionStore(SessionSynchronize(st, unit, unit.roots, d, FALSE), d)

\* existingWatch.getProgram().getProgram()
getProgram(st, d) ==
    SessionUpdate(Emit(st, Ev("pull", d, NoPath, NoPath, 0, KnownGet(st.known, d).level)),
                  d, KnownGet(st.known, d))

(***************************************************************************)
(* createWatchProgram                                                      *)
(***************************************************************************)
\* watchers registered by a construction that fails belong to nobody
SessionOwner(text, tsconfigPath) == IF CfgHasErrors(text) THEN Dead ELSE tsconfigPath

NewUnit(text) ==
    [cfg |-> text, roots |-> ScanRoots(text), srcs |-> {}, level |-> "Update", stale |-> {}]

createSessionWatch(r, owner, text) ==
    IF Threw(r.st) THEN r
    ELSE [st |-> WatchDirs(r.st, DirSeq(CfgInclude(text)), owner), unit |-> r.unit]

createSession(st, tsconfigPath, text) ==
    IF text = undefined
    THEN [st |-> diagnosticReporter(st), unit |-> NewUnit(text)]
    ELSE createSessionWatch(
           SessionSynchronize(
             WatchFile(st, tsconfigPath, SessionOwner(text, tsconfigPath), "config"),
             NewUnit(text), {}, SessionOwner(text, tsconfigPath), TRUE),
           SessionOwner(text, tsconfigPath), text)

\* the state after ts.createWatchProgram(watchCompilerHost) for tsconfigPath,
\* and the session it returns
createWatchProgram(st, tsconfigPath) ==
    createSession(
      readFile(Emit(Emit(st, Ev("create", tsconfigPath, NoPath, NoPath, 0, "")),
                    Ev("parse", tsconfigPath, NoPath, NoPath, 0, "")),
               tsconfigPath),
      tsconfigPath, readFileContent(st, tsconfigPath))

(***************************************************************************)
(* hasTSConfigChanged                                                      *)
(***************************************************************************)
EPSILON == 0

Abs(x) == IF x < 0 THEN -x ELSE x

\* fs.statSync(tsconfigPath) throws when the descriptor is not on the backing store
statSyncThrows(tsconfigPath) == disk[tsconfigPath] = undefined

\* the value hasTSConfigChanged returns when the stat succeeds
hasTSConfigChanged(st, tsconfigPath) ==
    IF ~Has(st.ts, tsconfigPath)
    THEN FALSE
    ELSE Abs(st.ts[tsconfigPath] - mtime[tsconfigPath]) > EPSILON

\* the state hasTSConfigChanged leaves
recordTSConfigTimestamp(st, tsconfigPath) ==
    IF statSyncThrows(tsconfigPath)
    THEN [Emit(st, Ev("throw", tsconfigPath, NoPath, NoPath, 0, "statSync"))
            EXCEPT !.status = "throw"]
    ELSE Emit([st EXCEPT !.ts = Put(@, tsconfigPath, mtime[tsconfigPath])],
              Ev("stat", tsconfigPath, NoPath, NoPath, 0, ""))

(***************************************************************************)
(* maybeInvalidateProgram                                                  *)
(***************************************************************************)
getSourceFile(program, filePath) == filePath \in program.srcs

mipReturn(st, tsconfigPath, kind, program, stage) ==
    Emit([st EXCEPT !.mip = [kind |-> kind, prog |-> program]],
         Ev("mipEnd", tsconfigPath, NoPath, <<stage>>, 0, kind))

\* lines 498-505: the descriptor changed
DescriptorChanged(st, tsconfigPath, changed) ==
    IF Threw(st) \/ ~changed THEN st
    ELSE IF ~Has(st.fileCbs, tsconfigPath)
         THEN [Emit(st, Ev("throw", tsconfigPath, NoPath, NoPath, 0, "TypeError"))
                 EXCEPT !.status = "throw"]
         ELSE cacheDelete(FireFile(st, tsconfigPath, tsconfigPath, "Changed"), tsconfigPath)

\* lines 493-506: the descriptor staleness step
DescriptorCheck(st, tsconfigPath) ==
    DescriptorChanged(recordTSConfigTimestamp(st, tsconfigPath), tsconfigPath,
                      hasTSConfigChanged(st, tsconfigPath))

\* lines 527-532 with every callback invoked once, with the directory itself
RECURSIVE FolderCallbacksOnce(_, _, _, _)
FolderCallbacksOnce(st, currentDir, current, cbs) ==
    IF cbs = <<>> THEN st
    ELSE FolderCallbacksOnce(
           Invoke(st, "fireFolder", current, Head(cbs), current, "Changed"),
           currentDir, current, Tail(cbs))

\* lines 527-532: the callbacks of one directory of the walk
RECURSIVE FolderCallbacks(_, _, _, _)
FolderCallbacks(st, currentDir, current, cbs) ==
    IF cbs = <<>> THEN st
    ELSE FolderCallbacks(
           Invoke(IF currentDir # current
                  THEN Invoke(st, "fireFolder", current, Head(cbs), currentDir, "Changed")
                  ELSE st,
                  "fireFolder", current, Head(cbs), current, "Changed"),
           currentDir, current, Tail(cbs))

\* lines 525-534: one directory of the walk
VisitFolder(st, currentDir, current) ==
    IF Has(st.folderCbs, current)
    THEN [FolderCallbacks(st, currentDir, current, CbSeq(st.folderCbs[current]))
            EXCEPT !.hasCallback = TRUE]
    ELSE st

\* lines 523-537: climb the folder tree from `current` to the root; a visit
\* is logged with the number of callbacks found under the directory
RECURSIVE ClimbFolders(_, _, _)
ClimbFolders(st, currentDir, current) ==
    IF canonicalDirname(current) = current
    THEN VisitFolder(Emit(st, Ev("visit", NoPath, current, NoPath,
                            IF Has(st.folderCbs, current)
                            THEN Cardinality(st.folderCbs[current]) ELSE 0,
                            IF Has(st.folderCbs, current) THEN "entry" ELSE "")),
                     currentDir, current)
    ELSE ClimbFolders(
           VisitFolder(Emit(st, Ev("visit", NoPath, current, NoPath,
                            IF Has(st.folderCbs, current)
                            THEN Cardinality(st.folderCbs[current]) ELSE 0,
                            IF Has(st.folderCbs, current) THEN "entry" ELSE "")),
                       currentDir, current),
           currentDir, canonicalDirname(current))

DirectoryEscalation(st, filePath) ==
    ClimbFolders([st EXCEPT !.hasCallback = FALSE],
                 canonicalDirname(filePath), canonicalDirname(filePath))

\* lines 594-604
FinalRepull(st, tsconfigPath, filePath) ==
    IF Threw(st) THEN st
    ELSE IF getSourceFile(Program(st, tsconfigPath), filePath)
    THEN mipReturn(st, tsconfigPath, "program", Program(st, tsconfigPath), "FinalRepull")
    ELSE mipReturn(st, tsconfigPath, "null", NullProgram, "FinalRepull")

\* root files of the program that are no longer on the backing store
MissingRoots(program) ==
    SelectSeq(FilesIn(program.roots), LAMBDA file : disk[file] = undefined)

\* lines 569-592 with the inconsistency answered by null
DeletionInferenceGivesUp(st, tsconfigPath, filePath, updatedProgram) ==
    IF MissingRoots(updatedProgram) = <<>>
    THEN mipReturn(st, tsconfigPath, "null", NullProgram, "DeletionInference")
    ELSE IF ~Has(st.fileCbs, getCanonicalFileName(Head(MissingRoots(updatedProgram))))
    THEN mipReturn(st, tsconfigPath, "null", NullProgram, "Inconsistent")
    ELSE FinalRepull(
           getProgram(
             cacheDelete(
               FireFile(st, getCanonicalFileName(Head(MissingRoots(updatedProgram))),
                        Head(MissingRoots(updatedProgram)), "Deleted"),
               tsconfigPath),
             tsconfigPath),
           tsconfigPath, filePath)

\* lines 569-592 with no callback told about the missing root file
DeletionInferenceQuiet(st, tsconfigPath, filePath, updatedProgram) ==
    IF MissingRoots(updatedProgram) = <<>>
    THEN mipReturn(st, tsconfigPath, "null", NullProgram, "DeletionInference")
    ELSE FinalRepull(getProgram(cacheDelete(st, tsconfigPath), tsconfigPath),
                     tsconfigPath, filePath)

\* lines 569-592
DeletionInference(st, tsconfigPath, filePath, updatedProgram) ==
    IF MissingRoots(updatedProgram) = <<>>
    THEN mipReturn(st, tsconfigPath, "null", NullProgram, "DeletionInference")
    ELSE IF ~Has(st.fileCbs, getCanonicalFileName(Head(MissingRoots(updatedProgram))))
    THEN mipReturn(st, tsconfigPath, "program", updatedProgram, "Inconsistent")
    ELSE FinalRepull(
           getProgram(
             cacheDelete(
               FireFile(st, getCanonicalFileName(Head(MissingRoots(updatedProgram))),
                        Head(MissingRoots(updatedProgram)), "Deleted"),
               tsconfigPath),
             tsconfigPath),
           tsconfigPath, filePath)

\* lines 553-555
AfterRepull(st, tsconfigPath, filePath) ==
    IF getSourceFile(Program(st, tsconfigPath), filePath)
    THEN mipReturn(st, tsconfigPath, "program", Program(st, tsconfigPath),
                   "RepullAfterEscalation")
    ELSE DeletionInference(st, tsconfigPath, filePath, Program(st, tsconfigPath))

\* lines 551-555; line 552 as seen by the caller: whether the second snapshot
\* holds the file
RepullAfterEscalation(st, tsconfigPath, filePath) ==
    IF Threw(st) THEN st
    ELSE AfterRepull(Emit(st, Ev("mipRepulled", tsconfigPath, filePath, NoPath, 0,
                                 IF getSourceFile(Program(st, tsconfigPath), filePath)
                                 THEN "contains" ELSE "lacks")),
                     tsconfigPath, filePath)

\* lines 538-551 without the early return: the cache is cleared and the unit
\* pulled again whether or not a directory had a subscription
AfterEscalationAlways(st, tsconfigPath, filePath) ==
    RepullAfterEscalation(getProgram(cacheDelete(st, tsconfigPath), tsconfigPath),
                          tsconfigPath, filePath)

\* lines 538-551
AfterEscalation(st, tsconfigPath, filePath) ==
    IF ~st.hasCallback
    THEN mipReturn(st, tsconfigPath, "null", NullProgram, "DirectoryEscalation")
    ELSE RepullAfterEscalation(getProgram(cacheDelete(st, tsconfigPath), tsconfigPath),
                               tsconfigPath, filePath)

\* lines 508-511 without the early return: the walk starts whether or not
\* the first snapshot holds the file
DirectContainmentEscalates(st, tsconfigPath, filePath, updatedProgram) ==
    IF Threw(st) THEN st
    ELSE AfterEscalation(DirectoryEscalation(st, filePath), tsconfigPath, filePath)

\* lines 508-511
DirectContainment(st, tsconfigPath, filePath, updatedProgram) ==
    IF Threw(st) THEN st
    ELSE IF getSourceFile(updatedProgram, filePath)
    THEN mipReturn(st, tsconfigPath, "program", updatedProgram, "DirectContainment")
    ELSE AfterEscalation(DirectoryEscalation(st, filePath), tsconfigPath, filePath)

\* lines 487-506 without the escape hatch of lines 489-491
AfterPullWithoutHatch(st, tsconfigPath, filePath) ==
    IF Threw(st) THEN st
    ELSE DirectContainment(DescriptorCheck(st, tsconfigPath), tsconfigPath, filePath,
                           Program(st, tsconfigPath))

\* lines 487-506
AfterPull(st, tsconfigPath, filePath) ==
    IF Threw(st) THEN st
    ELSE IF noInvalidation
    THEN mipReturn(st, tsconfigPath, "program", Program(st, tsconfigPath), "Pull")
    ELSE DirectContainment(DescriptorCheck(st, tsconfigPath), tsconfigPath, filePath,
                           Program(st, tsconfigPath))

\* the directories the walk of lines 519-537 visits
Ancestors(filePath) == {SubSeq(filePath, 1, k) : k \in 0..(Len(filePath) - 1)}

\* line 485 as seen by the caller: whether the snapshot holds the file, and how
\* many directories above the file have an entry in the directory table
ObservePull(st, tsconfigPath, filePath) ==
    IF Threw(st) THEN st
    ELSE Emit(st, Ev("mipPulled", tsconfigPath, filePath, NoPath,
                     Cardinality({dir \in Ancestors(filePath) : Has(st.folderCbs, dir)}),
                     IF getSourceFile(Program(st, tsconfigPath), filePath)
                     THEN "contains" ELSE "lacks"))

maybeInvalidateProgram(st, filePath, tsconfigPath) ==
    AfterPull(
      ObservePull(
        getProgram(Emit(st, Ev("mipBegin", tsconfigPath, filePath, NoPath, 0, "")),
                   tsconfigPath),
        tsconfigPath, filePath),
      tsconfigPath, filePath)

(***************************************************************************)
(* getWatchProgramsForProjects                                             *)
(***************************************************************************)
getTypeChecker(st, d) == Emit(st, Ev("getTypeChecker", d, NoPath, NoPath, 0, ""))

Return(st, programs) == [st EXCEPT !.status = "return", !.results = programs]

SeenHash(st, filePath) ==
    IF Has(st.hashes, filePath) THEN st.hashes[filePath] ELSE <<undefined>>

\* lines 252-263 without the comparison of hashes
EditDetectionAlways(st, filePath, code) ==
    IF /\ Has(st.fileCbs, filePath)
       /\ Cardinality(st.fileCbs[filePath]) > 0
    THEN FireFile(st, filePath, filePath, "Changed")
    ELSE st

\* lines 252-263: update file version if necessary
EditDetection(st, filePath, code) ==
    IF /\ SeenHash(st, filePath) # createHash(getCodeText(code))
       /\ Has(st.fileCbs, filePath)
       /\ Cardinality(st.fileCbs[filePath]) > 0
    THEN FireFile(st, filePath, filePath, "Changed")
    ELSE st

\* line 272 without the check: every known unit is considered
NotRequestedDropped(tsconfigPath, projects) == FALSE

\* line 272: the current run does not specify this tsconfig
NotRequested(tsconfigPath, projects) ==
    \A i \in 1..Len(projects) : projects[i] # tsconfigPath

\* lines 282-285: no cached file list, so pull and cache
RecomputeFileList(st, tsconfigPath) ==
    IF Threw(st) THEN st
    ELSE updateCachedFileList(st, tsconfigPath, Program(st, tsconfigPath))

\* lines 290-294 without the return: the loop falls through to the cascade
FoundExistingFallsThrough(st, tsconfigPath) == st

\* lines 290-294
FoundExisting(st, tsconfigPath) ==
    IF Threw(st) THEN st
    ELSE Return(getTypeChecker(st, tsconfigPath), <<Program(st, tsconfigPath)>>)

\* lines 271-296: the units already known, in map order, from entry i on
RECURSIVE FindExisting(_, _, _, _)
RECURSIVE FindExistingCheck(_, _, _, _, _)
FindExistingCheck(st, filePath, projects, i, cached) ==
    IF Threw(st) THEN st
    ELSE IF filePath \in st.cache[st.known[i].key]
    THEN FoundExisting(IF cached THEN getProgram(st, st.known[i].key) ELSE st,
                       st.known[i].key)
    ELSE FindExisting(st, filePath, projects, i + 1)

FindExisting(st, filePath, projects, i) ==
    IF i > Len(st.known) THEN st
    ELSE IF NotRequested(st.known[i].key, projects)
    THEN FindExisting(st, filePath, projects, i + 1)
    ELSE FindExistingCheck(
           IF Has(st.cache, st.known[i].key) THEN st
           ELSE RecomputeFileList(getProgram(st, st.known[i].key), st.known[i].key),
           filePath, projects, i, Has(st.cache, st.known[i].key))

\* lines 325-331 and 344-350 without the early return: the loop goes on
\* after a match
CheckFileListNeverStops(st, filePath, tsconfigPath, program) ==
    [st EXCEPT !.results = Append(@, program)]

\* lines 325-331 and 344-350
CheckFileList(st, filePath, tsconfigPath, program) ==
    IF filePath \in st.cache[tsconfigPath]
    THEN Return(st, <<program>>)
    ELSE [st EXCEPT !.results = Append(@, program)]

\* lines 320-332 and 339-350: cache and check the file list of a program
CacheAndCheck(st, filePath, tsconfigPath, program) ==
    CheckFileList(
      updateCachedFileList(getTypeChecker(st, tsconfigPath), tsconfigPath, program),
      filePath, tsconfigPath, program)

\* lines 336-338 reached even when line 335 raised: the unit is registered
RegisterAndPullAnyway(r, tsconfigPath) ==
    IF Threw(r.st) THEN SetWatch(r.st, tsconfigPath, r.unit)
    ELSE getProgram(SetWatch(r.st, tsconfigPath, r.unit), tsconfigPath)

\* lines 336-338: register the unit, pull it
RegisterAndPull(r, tsconfigPath) ==
    IF Threw(r.st) THEN r.st
    ELSE getProgram(SetWatch(r.st, tsconfigPath, r.unit), tsconfigPath)

\* lines 335-338
CreateAndRegister(st, tsconfigPath) ==
    RegisterAndPull(createWatchProgram(st, tsconfigPath), tsconfigPath)

\* lines 307-351: the requested descriptors, in request order, from entry i on
RECURSIVE CreateOrUpdate(_, _, _, _)
RECURSIVE AfterInvalidate(_, _, _, _)
RECURSIVE AfterCreate(_, _, _, _)
AfterInvalidate(st, filePath, projects, i) ==
    IF Threw(st) THEN st
    ELSE IF st.mip.kind = "null"
    THEN CreateOrUpdate(st, filePath, projects, i + 1)
    ELSE CreateOrUpdate(CacheAndCheck(st, filePath, projects[i], st.mip.prog),
                        filePath, projects, i + 1)

AfterCreate(st, filePath, projects, i) ==
    IF Threw(st) THEN st
    ELSE CreateOrUpdate(CacheAndCheck(st, filePath, projects[i], Program(st, projects[i])),
                        filePath, projects, i + 1)

\* lines 308-336 without the lookup of line 308: a unit is created for every
\* requested descriptor, registered or not
CreateOrUpdateAlwaysCreates(st, filePath, projects, i) ==
    IF i > Len(projects) \/ st.status # "ok" THEN st
    ELSE AfterCreate(CreateAndRegister(st, projects[i]), filePath, projects, i)

CreateOrUpdate(st, filePath, projects, i) ==
    IF i > Len(projects) \/ st.status # "ok" THEN st
    ELSE IF projects[i] \in KnownKeys(st.known)
    THEN AfterInvalidate(maybeInvalidateProgram(st, filePath, projects[i]),
                         filePath, projects, i)
    ELSE AfterCreate(CreateAndRegister(st, projects[i]), filePath, projects, i)

UpdateOrCreateAll(st, filePath, projects) ==
    IF st.status = "ok" THEN CreateOrUpdate(st, filePath, projects, 1) ELSE st

ReturnResults(st) ==
    IF st.status = "ok" THEN Return(st, st.results) ELSE st

getWatchProgramsForProjects(st, filePathIn, code, projects) ==
    ReturnResults(
      UpdateOrCreateAll(
        FindExisting(
          EditDetection(
            [st EXCEPT !.cur = [code |-> code,
                                filePath |-> getCanonicalFileName(filePathIn)]],
            getCanonicalFileName(filePathIn), code),
          getCanonicalFileName(filePathIn), projects, 1),
        getCanonicalFileName(filePathIn), projects))

(***************************************************************************)
(* The state machine                                                       *)
(***************************************************************************)
\* again: a resolution repeating the one just answered, nothing in between;
\* afterClear: a resolution that directly follows clearWatchCaches, for the
\* file of the resolution before it; programs, extraFileExtensions: the
\* remaining arguments of createProjectProgram
Op(name, file, code, projects, text) ==
    [name |-> name, file |-> file, code |-> code, projects |-> projects, text |-> text,
     again |-> FALSE, afterClear |-> FALSE,
     programs |-> <<>>, extraFileExtensions |-> <<>>]

Answered == op.name = "resolve" /\ ret.kind = "return" /\ Len(ret.progs) > 0

NoCode == [kind |-> "string", text |-> ""]
NoRet == [kind |-> "none", progs |-> <<>>]

Init ==
    /\ knownWatchProgramMap = <<>>
    /\ fileWatchCallbackTrackingMap = EmptyMap
    /\ folderWatchCallbackTrackingMap = EmptyMap
    /\ programFileListCache = EmptyMap
    /\ tsconfigLastModifiedTimestampCache = EmptyMap
    /\ parsedFilesSeenHash = EmptyMap
    /\ currentLintOperationState = [code |-> NoCode, filePath |-> NoPath]
    /\ \E a \in SourceTexts \cup {undefined} :
          disk = [x \in SourceFiles \cup Descriptors |->
                    CASE x = TsconfigA -> "S"
                      [] x = TsconfigB -> "T"
                      [] x = FileA -> a
                      [] OTHER -> "v1"]
    /\ mtime = [d \in Descriptors |-> 1]
    /\ noInvalidation \in BOOLEAN
    /\ edits = 0
    /\ handles = {}
    /\ op = Op("init", NoPath, NoCode, <<>>, "")
    /\ log = <<>>
    /\ ret = NoRet

\* write the working copy back to the module state
Commit(st) ==
    /\ knownWatchProgramMap' = st.known
    /\ fileWatchCallbackTrackingMap' = st.fileCbs
    /\ folderWatchCallbackTrackingMap' = st.folderCbs
    /\ programFileListCache' = st.cache
    /\ tsconfigLastModifiedTimestampCache' = st.ts
    /\ parsedFilesSeenHash' = st.hashes
    /\ currentLintOperationState' = st.cur
    /\ log' = st.log
    /\ ret' = [kind |-> st.status, progs |-> st.results]

\* one lint run: getWatchProgramsForProjects(parseSettings)
Resolve(filePath, code, projects) ==
    /\ Cardinality({c \in AllCallbacks(Cur) : c.owner = Dead}) < MaxDeadCallbacks
    /\ Commit(getWatchProgramsForProjects(Cur, filePath, code, projects))
    /\ op' = [Op("resolve", filePath, code, projects, "")
                EXCEPT !.again = /\ Answered
                                 /\ op.file = filePath
                                 /\ op.code = code
                                 /\ op.projects = projects,
                       !.afterClear =
                          /\ op.name = "clear"
                          /\ currentLintOperationState.filePath =
                                getCanonicalFileName(filePath)]
    /\ UNCHANGED <<disk, mtime, noInvalidation, edits, handles>>

ClearCaches ==
    /\ Commit([clearWatchCaches(Cur) EXCEPT !.status = "return"])
    /\ handles' = {[h EXCEPT !.w.detached = TRUE] : h \in handles}
    /\ op' = Op("clear", NoPath, NoCode, <<>>, "")
    /\ UNCHANGED <<disk, mtime, noInvalidation, edits>>

\* the backing store changes behind the cache's back
WriteSource(f, text) ==
    /\ edits < MaxEdits
    /\ text # disk[f]
    /\ disk' = [disk EXCEPT ![f] = text]
    /\ edits' = edits + 1
    /\ op' = Op("writeSource", f, NoCode, <<>>, text)
    /\ log' = <<>>
    /\ ret' = NoRet
    /\ UNCHANGED <<knownWatchProgramMap, fileWatchCallbackTrackingMap,
                   folderWatchCallbackTrackingMap, programFileListCache,
                   tsconfigLastModifiedTimestampCache, parsedFilesSeenHash,
                   currentLintOperationState, mtime, noInvalidation, handles>>

WriteDescriptor(d, text) ==
    /\ edits < MaxEdits
    /\ text # disk[d]
    /\ disk' = [disk EXCEPT ![d] = text]
    /\ mtime' = [mtime EXCEPT ![d] = @ + 1]
    /\ edits' = edits + 1
    /\ op' = Op("writeDescriptor", d, NoCode, <<>>, text)
    /\ log' = <<>>
    /\ ret' = NoRet
    /\ UNCHANGED <<knownWatchProgramMap, fileWatchCallbackTrackingMap,
                   folderWatchCallbackTrackingMap, programFileListCache,
                   tsconfigLastModifiedTimestampCache, parsedFilesSeenHash,
                   currentLintOperationState, noInvalidation, handles>>

\* FileA is linted as stored or with an unsaved edit, FileB as stored
Requests == {<<FileA, c>> : c \in Codes} \cup {<<FileB, [kind |-> "string", text |-> "v1"]>>}

DoResolve == \E r \in Requests, ps \in ProjectLists : Resolve(r[1], r[2], ps)
DoWriteSource == \E f \in SourceFiles, t \in SourceTexts \cup {undefined} : WriteSource(f, t)
DoWriteDescriptor == \E d \in Descriptors, t \in ConfigTexts \cup {undefined} : WriteDescriptor(d, t)

Next == DoResolve \/ ClearCaches \/ DoWriteSource \/ DoWriteDescriptor

Spec == Init /\ [][Next]_vars

(***************************************************************************)
(* The subscription registry driven directly: any client of the two hooks  *)
(* saveWatchCallback returns, the handles it gets back, and notifications  *)
(***************************************************************************)
WatchableNames == {DirS, DirS \o <<"">>, FileA}
TrackingMaps == {"file", "folder"}

TrackingMap(st, which) == IF which = "file" THEN st.fileCbs ELSE st.folderCbs
WithTrackingMap(st, which, m) ==
    IF which = "file" THEN [st EXCEPT !.fileCbs = m] ELSE [st EXCEPT !.folderCbs = m]

\* watchFile / watchDirectory(fileName, callback) called by unit `owner`
WatchCall(which, fileName, owner) ==
    /\ Cardinality(handles) < MaxHandles
    /\ LET callback == NewCallback(Cur, owner, "ext")
           st == WithTrackingMap(Cur, which,
                     saveWatchCallback(TrackingMap(Cur, which), fileName, callback))
       IN /\ Commit([st EXCEPT !.status = "return"])
          /\ handles' = handles \cup {[map |-> which, w |-> WatcherOf(fileName, callback)]}
    /\ op' = Op("watch", fileName, NoCode, <<owner>>, which)
    /\ UNCHANGED <<disk, mtime, noInvalidation, edits>>

\* handle.close(), on any handle ever returned, any number of times
CloseCall(h) ==
    /\ Commit([WithTrackingMap(Cur, h.map, close(TrackingMap(Cur, h.map), h.w))
                 EXCEPT !.status = "return",
                        !.log = <<Ev("close", h.w.cb.owner, h.w.path, NoPath, h.w.cb.id, h.map)>>])
    /\ op' = Op("close", h.w.path, NoCode, <<h.w.cb.owner>>, h.map)
    /\ UNCHANGED <<disk, mtime, noInvalidation, edits, handles>>

\* a notification for a path: every callback in its set is invoked
NotifyCall(which, path) ==
    /\ Has(TrackingMap(Cur, which), path)
    /\ Commit([InvokeEach(Cur, "notify", path, CbSeq(TrackingMap(Cur, which)[path]),
                          path, "Changed")
                 EXCEPT !.status = "return"])
    /\ op' = Op("notify", path, NoCode, <<>>, which)
    /\ UNCHANGED <<disk, mtime, noInvalidation, edits, handles>>

DoWatch == \E m \in TrackingMaps, f \in WatchableNames, d \in Descriptors : WatchCall(m, f, d)
DoClose == \E h \in handles : CloseCall(h)
DoNotify == \E m \in TrackingMaps, f \in WatchableNames : NotifyCall(m, getCanonicalFileName(f))

NextWatch == DoWatch \/ DoClose \/ DoNotify \/ ClearCaches

SpecWatch == Init /\ [][NextWatch]_vars

(***************************************************************************)
(* Reading the record of the last operation                                *)
(***************************************************************************)
Requested(projects) == {projects[i] : i \in 1..Len(projects)}
Registered == KnownKeys(knownWatchProgramMap)
Events(l, e) == {i \in 1..Len(l) : l[i].e = e}
EventsFor(l, e, d) == {i \in 1..Len(l) : l[i].e = e /\ l[i].d = d}
Returned(r) == {r.progs[i].d : i \in 1..Len(r.progs)}
CacheEntry(cache, d) == IF Has(cache, d) THEN <<"set", cache[d]>> ELSE <<"absent", {}>>

(***************************************************************************)
(* C1: a resolution never pulls, returns, caches for or unregisters a unit *)
(* whose descriptor is not a key of the request's project set: such a unit *)
(* stays in knownWatchProgramMap and its programFileListCache entry is     *)
(* left exactly as it was.                                                 *)
(***************************************************************************)
C1_UnrequestedUnitIgnored ==
    [][op'.name = "resolve" =>
         \A d \in Registered \ Requested(op'.projects) :
            /\ EventsFor(log', "pull", d) = {}
            /\ EventsFor(log', "getTypeChecker", d) = {}
            /\ EventsFor(log', "cacheSet", d) = {}
            /\ EventsFor(log', "cacheDelete", d) = {}
            /\ d \notin Returned(ret')
            /\ d \in KnownKeys(knownWatchProgramMap')
            /\ CacheEntry(programFileListCache', d) = CacheEntry(programFileListCache, d)]_vars

\* a request left out a registered unit whose cached file list holds the
\* target file, and was answered from a requested unit
C1_Witness ==
    /\ op.name = "resolve"
    /\ ret.kind = "return"
    /\ Len(ret.progs) > 0
    /\ \E d \in Registered \ Requested(op.projects) :
          /\ Has(programFileListCache, d)
          /\ op.file \in programFileListCache[d]

(***************************************************************************)
(* C2: when a registered unit of a requested descriptor has a file list    *)
(* (cached, or recomputed by a pull because the cache entry was absent)    *)
(* holding the target file, the resolution returns exactly one program,    *)
(* that unit's freshly pulled one, after getTypeChecker, with no cascade   *)
(* and no new unit; or the pull raises the descriptor's diagnostic and     *)
(* that error propagates, again with no cascade and no new unit.           *)
(***************************************************************************)
Target(o) == getCanonicalFileName(o.file)
NoSecondLoop(l) == Events(l, "mipBegin") \cup Events(l, "create") = {}

\* the first loop finds the target: in a list cached before the call, or in
\* one it recomputed (a recomputation that misses always ends in the second loop)
C2_Hit ==
    \E d \in Registered \cap Requested(op'.projects) :
       \/ /\ Has(programFileListCache, d)
          /\ Target(op') \in programFileListCache[d]
       \/ /\ ~Has(programFileListCache, d)
          /\ EventsFor(log', "cacheSet", d) # {}
          /\ NoSecondLoop(log')
          /\ Has(programFileListCache', d)
          /\ Target(op') \in programFileListCache'[d]

C2_OneFreshProgram ==
    /\ ret'.kind = "return"
    /\ Len(ret'.progs) = 1
    /\ LET d == ret'.progs[1].d
       IN /\ d \in Registered \cap Requested(op'.projects)
          /\ Has(programFileListCache', d)
          /\ Target(op') \in programFileListCache'[d]
          /\ ret'.progs[1] = ProgramOf(d, KnownGet(knownWatchProgramMap', d))
          /\ \E i \in EventsFor(log', "pull", d) :
                \E j \in EventsFor(log', "getTypeChecker", d) : i < j
    /\ NoSecondLoop(log')
    /\ KnownKeys(knownWatchProgramMap') = Registered

C2_PullRaised ==
    /\ ret'.kind = "throw"
    /\ log'[Len(log')].e = "throw"
    /\ log'[Len(log')].s = "diagnostic"
    /\ \E d \in Registered \cap Requested(op'.projects) : EventsFor(log', "pull", d) # {}
    /\ NoSecondLoop(log')
    /\ KnownKeys(knownWatchProgramMap') = Registered

C2_WitnessRaised ==
    /\ op.name = "resolve"
    /\ ret.kind = "throw"
    /\ NoSecondLoop(log)
    /\ \E d \in Registered : /\ Has(programFileListCache, d)
                             /\ Target(op) \in programFileListCache[d]

(***************************************************************************)
(* C3: closing a handle removes at most the callback registered through    *)
(* that handle.  Every other callback under any path of either tracking    *)
(* map, whoever registered it and however often the handle was closed      *)
(* before, is still in its path's set afterwards, and a notification for a *)
(* path invokes every callback that is in the path's set.                  *)
(***************************************************************************)
TrackingMapNow(which) ==
    IF which = "file" THEN fileWatchCallbackTrackingMap ELSE folderWatchCallbackTrackingMap
TrackingMapNext(which) ==
    IF which = "file" THEN fileWatchCallbackTrackingMap' ELSE folderWatchCallbackTrackingMap'

C3_OthersKept ==
    \A which \in TrackingMaps :
       \A p \in DOMAIN TrackingMapNow(which) :
          \A c \in TrackingMapNow(which)[p] :
             c.id # log'[1].n =>
                /\ Has(TrackingMapNext(which), p)
                /\ c \in TrackingMapNext(which)[p]

C3_AllInvoked ==
    \A c \in TrackingMapNow(op'.text)[op'.file] :
       \E i \in Events(log', "notify") : log'[i].n = c.id /\ log'[i].d = c.owner

C3_CloseRemovesOnlyItsCallback ==
    [][/\ op'.name = "close" => C3_OthersKept
       /\ op'.name = "notify" => C3_AllInvoked]_vars

\* a handle was closed and a callback of another unit is still subscribed
\* under the same canonical path
C3_Witness ==
    /\ op.name = "close"
    /\ Has(TrackingMapNow(op.text), op.file)
    /\ \A c \in TrackingMapNow(op.text)[op.file] : c.id # log[1].n
    /\ \E c \in TrackingMapNow(op.text)[op.file] : c.owner # log[1].d

(***************************************************************************)
(* C4: a resolution that repeats, with the same file, code and descriptor  *)
(* set and nothing in between, a resolution answered with the one unit     *)
(* whose file list holds the target, returns that same unit again, fires   *)
(* no directory callback and no deletion callback, and creates no unit.    *)
(***************************************************************************)
Deletions(l) == {i \in Events(l, "fireFile") : l[i].s = "Deleted"}

\* the resolution just made returned one unit, and its file list holds the target
C4_ReturnedUnit ==
    /\ Answered
    /\ Len(ret.progs) = 1
    /\ Has(programFileListCache, ret.progs[1].d)
    /\ Target(op) \in programFileListCache[ret.progs[1].d]

C4_NoEscalation(l) ==
    /\ Events(l, "fireFolder") = {}
    /\ Deletions(l) = {}
    /\ Events(l, "create") = {}

C4_SameUnit ==
    /\ ret'.kind = "return"
    /\ Len(ret'.progs) = 1
    /\ ret'.progs[1].d = ret.progs[1].d

C4_RepeatIsStable ==
    [][(op'.name = "resolve" /\ op'.again /\ C4_ReturnedUnit)
          => (C4_SameUnit /\ C4_NoEscalation(log'))]_vars

(***************************************************************************)
(* C5: when the descriptor of a registered unit has just been rewritten    *)
(* (new modification time) so that a file the unit's program did not hold  *)
(* is now selected by it, the next resolution for that file with that      *)
(* descriptor requested returns that unit's program, and it holds the      *)
(* file (the escape hatch TSESTREE_NO_INVALIDATION being off).             *)
(***************************************************************************)
\* the last operation rewrote descriptor d, and file f is newly includable by it
C5_NewlyIncludable(f, d) ==
    /\ op.name = "writeDescriptor"
    /\ op.file = d
    /\ d \in Registered
    /\ disk[d] # undefined
    /\ ~CfgHasErrors(disk[d])
    /\ f \notin KnownGet(knownWatchProgramMap, d).srcs
    /\ f \in ScanRoots(disk[d])

C5_Observed(f, d) ==
    /\ ret'.kind = "return"
    /\ \E i \in 1..Len(ret'.progs) :
          /\ ret'.progs[i].d = d
          /\ f \in ret'.progs[i].srcs

C5_DescriptorChangeObserved ==
    [][\A d \in Descriptors :
          (/\ op'.name = "resolve"
           /\ ~noInvalidation
           /\ d \in Requested(op'.projects)
           /\ C5_NewlyIncludable(Target(op'), d))
          => C5_Observed(Target(op'), d)]_vars

(***************************************************************************)
(* C6: maybeInvalidateProgram for a file that the pulled snapshot does not *)
(* hold and none of whose ancestor directories has an entry in the         *)
(* directory table pulls exactly once and invokes no directory and no      *)
(* deletion callback.  With the escape hatch on it returns the pulled      *)
(* snapshot.  Otherwise: if the descriptor is gone the stat raises; if the *)
(* descriptor's recorded modification time differs from the current one it *)
(* invokes the descriptor's callbacks, removes the cache entry and returns *)
(* null; in the remaining case it returns null having invoked no callback  *)
(* and with the cache entry left alone.                                    *)
(***************************************************************************)
\* the calls of maybeInvalidateProgram in a log whose case is the claim's
C6_Calls(l) == {i \in Events(l, "mipPulled") : l[i].n = 0 /\ l[i].s = "lacks"}

\* the call observed at i spans the events from begin to end, both excluded
C6_Begin(l, i) == CHOOSE b \in Events(l, "mipBegin") :
                     b < i /\ \A k \in Events(l, "mipBegin") : k < i => k <= b
C6_Ends(l, i) == {j \in Events(l, "mipEnd") : j > i}
C6_End(l, i) ==
    IF C6_Ends(l, i) = {} THEN Len(l) + 1
    ELSE CHOOSE j \in C6_Ends(l, i) : \A k \in C6_Ends(l, i) : j <= k
C6_During(l, i, e) == {k \in Events(l, e) : C6_Begin(l, i) < k /\ k < C6_End(l, i)}

C6_ReturnedNull(l, i) == C6_Ends(l, i) # {} /\ l[C6_End(l, i)].s = "null"
C6_ReturnedProgram(l, i) == C6_Ends(l, i) # {} /\ l[C6_End(l, i)].s = "program"
C6_Raised(l, i) ==
    /\ C6_Ends(l, i) = {}
    /\ l[Len(l)].e = "throw"
    /\ l[Len(l)].s = "statSync"

C6_Quiet(l, i) ==
    /\ C6_During(l, i, "fireFile") = {}
    /\ C6_During(l, i, "fireFolder") = {}
    /\ C6_During(l, i, "cacheDelete") = {}
    /\ Cardinality(C6_During(l, i, "pull")) = 1

\* the claim as stated
C6_NullAndQuiet ==
    [][op'.name = "resolve" =>
         \A i \in C6_Calls(log') : C6_ReturnedNull(log', i) /\ C6_Quiet(log', i)]_vars

C6_TimestampChanged(d) ==
    /\ Has(tsconfigLastModifiedTimestampCache, d)
    /\ tsconfigLastModifiedTimestampCache[d] # mtime[d]

C6_DescriptorNotified(l, i) ==
    /\ Cardinality(C6_During(l, i, "pull")) = 1
    /\ C6_During(l, i, "fireFolder") = {}
    /\ C6_During(l, i, "fireFile") # {}
    /\ \A k \in C6_During(l, i, "fireFile") : l[k].p = l[i].d /\ l[k].s = "Changed"
    /\ Cardinality(C6_During(l, i, "cacheDelete")) = 1

C6_NoMatchWithoutSubscription ==
    [][op'.name = "resolve" =>
         \A i \in C6_Calls(log') :
            IF noInvalidation
            THEN C6_ReturnedProgram(log', i) /\ C6_Quiet(log', i)
            ELSE IF disk[log'[i].d] = undefined
            THEN C6_Raised(log', i) /\ C6_Quiet(log', i)
            ELSE IF C6_TimestampChanged(log'[i].d)
            THEN C6_ReturnedNull(log', i) /\ C6_DescriptorNotified(log', i)
            ELSE C6_ReturnedNull(log', i) /\ C6_Quiet(log', i)]_vars

\* a call in the claim's case came back null with nothing invoked
C6_Witness ==
    /\ op.name = "resolve"
    /\ ~noInvalidation
    /\ \E i \in C6_Calls(log) : C6_ReturnedNull(log, i) /\ C6_Quiet(log, i)

(***************************************************************************)
(* C7: every read the provider makes through the read hook during a        *)
(* resolution returns the request's in-memory code when the path is the    *)
(* request's file and the content on disk otherwise, and when the content  *)
(* returned is defined the hash recorded for the path in                   *)
(* parsedFilesSeenHash is the hash of that content.                        *)
(***************************************************************************)
C7_ReadHookOverlay ==
    [][op'.name = "resolve" =>
         \A k \in Events(log', "read") :
            /\ log'[k].p = Target(op') => log'[k].s = getCodeText(op'.code)
            /\ log'[k].p # Target(op') => log'[k].s = disk[log'[k].p]
            /\ log'[k].s # undefined =>
                  /\ Has(parsedFilesSeenHash', log'[k].p)
                  /\ parsedFilesSeenHash'[log'[k].p] = createHash(log'[k].s)]_vars

\* the request's file was read while its copy on disk was different, and
\* another file was read from disk
C7_Witness ==
    /\ op.name = "resolve"
    /\ \E k \in Events(log, "read") :
          /\ log[k].p = Target(op)
          /\ disk[Target(op)] # undefined
          /\ log[k].s # disk[Target(op)]
          /\ parsedFilesSeenHash[Target(op)] = createHash(getCodeText(op.code))
    /\ \E k \in Events(log, "read") : log[k].p \in SourceFiles \ {Target(op)}

(***************************************************************************)
(* C8: clearWatchCaches leaves the unit registry, both subscription tables,*)
(* the file list cache, the timestamp cache and the content hash table     *)
(* empty, and the resolution that follows it begins by creating a unit:    *)
(* every program it returns belongs to a unit it created, from a           *)
(* descriptor it had parsed anew.                                          *)
(***************************************************************************)
C8_AllEmpty ==
    /\ knownWatchProgramMap' = <<>>
    /\ DOMAIN fileWatchCallbackTrackingMap' = {}
    /\ DOMAIN folderWatchCallbackTrackingMap' = {}
    /\ DOMAIN programFileListCache' = {}
    /\ DOMAIN tsconfigLastModifiedTimestampCache' = {}
    /\ DOMAIN parsedFilesSeenHash' = {}

C8_Recreated ==
    /\ Len(log') > 0
    /\ log'[1].e = "create"
    /\ log'[1].d = op'.projects[1]
    /\ \A i \in 1..Len(ret'.progs) :
          \E c \in EventsFor(log', "create", ret'.progs[i].d) :
             \E q \in EventsFor(log', "parse", ret'.progs[i].d) :
                \E r \in Events(log', "read") :
                   /\ c < q
                   /\ q < r
                   /\ log'[r].p = ret'.progs[i].d

C8_ClearForgetsEverything ==
    [][/\ op'.name = "clear" => C8_AllEmpty
       /\ (op.name = "clear" /\ op'.name = "resolve") => C8_Recreated]_vars

\* a file resolved before the reset was resolved again right after it
C8_Witness ==
    /\ op.name = "resolve"
    /\ op.afterClear
    /\ ret.kind = "return"
    /\ Len(ret.progs) = 1
    /\ Target(op) \in ret.progs[1].srcs
    /\ Events(log, "parse") # {}

(***************************************************************************)
(* C9: when creating the unit of a descriptor raises the descriptor's      *)
(* diagnostic, the resolution ends with that error and the descriptor has  *)
(* no entry in knownWatchProgramMap and none in programFileListCache; and  *)
(* a resolution that requests a descriptor with no unit and gets as far as *)
(* that descriptor attempts to create its unit.                            *)
(***************************************************************************)
\* the creations in a log that were not followed by the pull of line 338
C9_FailedCreations(l) ==
    {k \in Events(l, "create") : \A j \in Events(l, "pull") : j < k \/ l[j].d # l[k].d}

\* the call ended before its second loop was through: it raised, or returned
\* the one program whose file list holds the target
C9_EndedEarly ==
    \/ ret'.kind = "throw"
    \/ /\ ret'.kind = "return"
       /\ Len(ret'.progs) = 1
       /\ Target(op') \in programFileListCache'[ret'.progs[1].d]

C9_NoPartialUnit ==
    [][op'.name = "resolve" =>
         /\ \A k \in C9_FailedCreations(log') :
               /\ ret'.kind = "throw"
               /\ log'[Len(log')].e = "throw"
               /\ log'[Len(log')].s = "diagnostic"
               /\ log'[k].d \notin KnownKeys(knownWatchProgramMap')
               /\ ~Has(programFileListCache', log'[k].d)
         /\ \A d \in Requested(op'.projects) \ Registered :
               EventsFor(log', "create", d) # {} \/ C9_EndedEarly]_vars

\* creating a unit failed once more, for a descriptor whose creation had
\* failed before and left its subscriptions behind
C9_Witness ==
    /\ op.name = "resolve"
    /\ ret.kind = "throw"
    /\ \E k \in C9_FailedCreations(log) :
          /\ log[k].d \notin Registered
          /\ Cardinality(Owned(fileWatchCallbackTrackingMap, log[k].d, Dead)) > 1

(***************************************************************************)
(* C10: a resolution whose requested descriptors all have a unit already,  *)
(* for a target file that none of those units holds and none of those      *)
(* descriptors selects, returns normally with a list of programs: it never *)
(* ends with an error, whatever happened to the descriptors' files since   *)
(* the units were registered.                                              *)
(***************************************************************************)
\* descriptor d, as it is on disk, selects f or a file that imports f
C10_Selects(d, f) ==
    /\ disk[d] # undefined
    /\ \E g \in ScanRoots(disk[d]) : f = g \/ f \in Imports(g)

\* f is a miss for the registered unit of d
C10_Miss(d, f) ==
    /\ d \in Registered
    /\ f \notin KnownGet(knownWatchProgramMap, d).srcs
    /\ f \notin KnownGet(knownWatchProgramMap, d).roots
    /\ ~C10_Selects(d, f)

C10_MissNeverRaises ==
    [][(/\ op'.name = "resolve"
        /\ \A d \in Requested(op'.projects) : C10_Miss(d, Target(op')))
          => ret'.kind = "return"]_vars

(***************************************************************************)
(* C11: a resolution creates a unit only for a descriptor that has none in *)
(* knownWatchProgramMap, and at most once; the descriptors registered      *)
(* before the call are still registered after it, in the same order; so a  *)
(* registered descriptor is served by the unit it already has.             *)
(***************************************************************************)
KeySeq(known) == [i \in 1..Len(known) |-> known[i].key]

C11_OneUnitPerDescriptor ==
    [][op'.name = "resolve" =>
         /\ \A k \in Events(log', "create") :
               /\ log'[k].d \notin Registered
               /\ EventsFor(log', "create", log'[k].d) = {k}
         /\ Len(knownWatchProgramMap') >= Len(knownWatchProgramMap)
         /\ SubSeq(KeySeq(knownWatchProgramMap'), 1, Len(knownWatchProgramMap))
               = KeySeq(knownWatchProgramMap)
         /\ \A d \in KnownKeys(knownWatchProgramMap') \ Registered :
               EventsFor(log', "create", d) # {}]_vars

\* a request went through the cascade of a unit registered by an earlier
\* request, and created the unit of another descriptor after it
C11_Witness ==
    /\ op.name = "resolve"
    /\ \E m \in Events(log, "mipBegin") :
          \E k \in Events(log, "create") :
             /\ m < k
             /\ log[m].d # log[k].d
             /\ {log[m].d, log[k].d} \subseteq Registered

(***************************************************************************)
(* The calls of maybeInvalidateProgram in the record of an operation       *)
(***************************************************************************)
\* the call that begins at b ends at the first mipEnd after b, or with the log
CallEnds(l, b) == {j \in Events(l, "mipEnd") : j > b}
CallEnd(l, b) ==
    LET ends == CallEnds(l, b)
    IN IF ends = {} THEN Len(l) + 1
       ELSE CHOOSE j \in ends : \A k \in ends : j <= k
Within(l, b, e) ==
    LET end == CallEnd(l, b)
    IN {k \in Events(l, e) : b < k /\ k < end}
CallReturned(l, b) == CallEnds(l, b) # {}
CallResult(l, b) == l[CallEnd(l, b)].s
CallStage(l, b) == l[CallEnd(l, b)].q[1]

(***************************************************************************)
(* C12: with TSESTREE_NO_INVALIDATION set, every call of                   *)
(* maybeInvalidateProgram pulls once and returns that snapshot, never      *)
(* null; it makes no stat, the timestamp cache stays empty, it fires no    *)
(* file, directory or deletion callback, climbs no directory and removes   *)
(* no file list cache entry; the caller goes on with the program it got.   *)
(***************************************************************************)
C12_EscapeHatch ==
    (op.name = "resolve" /\ noInvalidation) =>
       /\ DOMAIN tsconfigLastModifiedTimestampCache = {}
       /\ Events(log, "stat") = {}
       /\ Events(log, "cacheDelete") = {}
       /\ \A b \in Events(log, "mipBegin") :
             /\ CallReturned(log, b)
             /\ CallResult(log, b) = "program"
             /\ CallStage(log, b) = "Pull"
             /\ Cardinality(Within(log, b, "pull")) = 1
             /\ Within(log, b, "fireFile") = {}
             /\ Within(log, b, "fireFolder") = {}
             /\ Within(log, b, "visit") = {}
             /\ CallEnd(log, b) < Len(log)
             /\ log[CallEnd(log, b) + 1].e = "getTypeChecker"
             /\ log[CallEnd(log, b) + 1].d = log[b].d

\* with the hatch on, a call for a file the snapshot lacks, under a directory
\* with a subscription, of a unit whose descriptor was rewritten, came back
\* with the snapshot
C12_Witness ==
    /\ op.name = "resolve"
    /\ noInvalidation
    /\ \E i \in Events(log, "mipPulled") :
          /\ log[i].s = "lacks"
          /\ log[i].n > 0
          /\ mtime[log[i].d] > 1
          /\ CallResult(log, i) = "program"

(***************************************************************************)
(* createProjectProgram: the non-caching resolution over pre-built         *)
(* programs and the diagnostic it constructs (lines 14-111).  Text is a    *)
(* sequence of fragments; an extension is its fragments, "." first.        *)
(***************************************************************************)
MaxPrograms == 2
MaxExtraFileExtensions == 2

\* the grave accent U+0060 of the message templates
Backtick == "U+0060"

FileVue == <<"p", "s", "c.vue">>
FileNoExt == <<"p", "s", "Makefile">>
FallbackFiles == {FileA, FileVue, FileNoExt}

\* lines 14-23
DEFAULT_EXTRA_FILE_EXTENSIONS ==
    << <<".", "ts">>, <<".", "tsx">>, <<".", "js">>, <<".", "jsx">>,
       <<".", "mjs">>, <<".", "mts">>, <<".", "cjs">>, <<".", "cts">> >>

\* values of parserOptions.extraFileExtensions entries
ExtraFileExtensionChoices == {<<".", "vue">>, <<"vue">>, <<".", "ts">>}

\* programs built ahead of the call
PrebuiltPrograms ==
    {[d |-> TsconfigA, roots |-> {FileA}, srcs |-> {FileA, FileB}],
     [d |-> TsconfigB, roots |-> {FileVue}, srcs |-> {FileVue, FileA}],
     [d |-> TsconfigB, roots |-> {FileB}, srcs |-> {FileB}]}

SeqsUpTo(S, n) == UNION {[1..k -> S] : k \in 0..n}

includes(array, x) == \E i \in 1..Len(array) : array[i] = x
startsWith(s, prefix) == Len(s) > 0 /\ s[1] = prefix

\* path.extname of the last component
extname(filePath) ==
    CASE filePath = FileVue -> <<".", "vue">>
      [] filePath = FileNoExt -> <<>>
      [] OTHER -> <<".", "ts">>

describeFilePath(filePath) == <<"<tsconfigRootDir>">> \o filePath

RECURSIVE join(_, _)
join(lines, separator) ==
    IF Len(lines) = 0 THEN <<>>
    ELSE IF Len(lines) = 1 THEN lines[1]
    ELSE lines[1] \o <<separator>> \o join(Tail(lines), separator)

\* lines 35-38: the index of the first program that has the file, or 0
getAstFromProgram(currentProgram, filePath) == getSourceFile(currentProgram, filePath)

lastDefined(programsForProjects, filePath) ==
    IF \E i \in 1..Len(programsForProjects) :
          getAstFromProgram(programsForProjects[i], filePath)
    THEN CHOOSE i \in 1..Len(programsForProjects) :
            /\ getAstFromProgram(programsForProjects[i], filePath)
            /\ \A j \in (i + 1)..Len(programsForProjects) :
                  ~getAstFromProgram(programsForProjects[j], filePath)
    ELSE 0

firstDefined(programsForProjects, filePath) ==
    IF \E i \in 1..Len(programsForProjects) :
          getAstFromProgram(programsForProjects[i], filePath)
    THEN CHOOSE i \in 1..Len(programsForProjects) :
            /\ getAstFromProgram(programsForProjects[i], filePath)
            /\ \A j \in 1..(i - 1) : ~getAstFromProgram(programsForProjects[j], filePath)
    ELSE 0

describedProgramsAsList(relativeProjects) ==
    <<"\n">> \o join([i \in 1..Len(relativeProjects) |->
                        <<"- ">> \o relativeProjects[i]], "\n")

\* lines 51-57
describedPrograms(relativeProjects) ==
    IF Len(relativeProjects) = 1
    THEN <<" ">> \o relativeProjects[1]
    ELSE <<"\n">> \o join([i \in 1..Len(relativeProjects) |->
                             <<"- ">> \o relativeProjects[i]], "\n")

\* lines 58-60
HeaderLine(parseSettings) ==
    <<"ESLint was configured to run on ", Backtick>>
      \o describeFilePath(parseSettings.filePath)
      \o <<Backtick, " using ", Backtick, "parserOptions.project", Backtick, ":">>
      \o describedPrograms([i \in 1..Len(parseSettings.projects) |->
                              describeFilePath(parseSettings.projects[i])])

\* lines 66-75: the lines one entry of extraFileExtensions adds
ExtraExtensionLines(extraExtension) ==
    (IF ~startsWith(extraExtension, ".")
     THEN << <<"Found unexpected extension ", Backtick>> \o extraExtension
               \o <<Backtick, " specified with the ", Backtick, "parserOptions.extraFileExtensions", Backtick, " option. Did you mean ", Backtick, ".">>
               \o extraExtension \o <<Backtick, "?">> >>
     ELSE <<>>)
    \o
    (IF includes(DEFAULT_EXTRA_FILE_EXTENSIONS, extraExtension)
     THEN << <<"You unnecessarily included the extension ", Backtick>> \o extraExtension
               \o <<Backtick, " with the ", Backtick, "parserOptions.extraFileExtensions", Backtick, " option. This extension is already handled by the parser by default.">> >>
     ELSE <<>>)

\* only the first entry is looked at
firstExtraExtension(extraFileExtensions) ==
    IF Len(extraFileExtensions) = 0 THEN <<>>
    ELSE ExtraExtensionLines(Head(extraFileExtensions))

\* lines 65-76: extraFileExtensions.forEach
RECURSIVE forEachExtraExtension(_)
forEachExtraExtension(extraFileExtensions) ==
    IF Len(extraFileExtensions) = 0 THEN <<>>
    ELSE ExtraExtensionLines(Head(extraFileExtensions))
           \o forEachExtraExtension(Tail(extraFileExtensions))

\* line 80
nonStandardExt(fileExtension) ==
    <<"The extension for the file (", Backtick>> \o fileExtension \o <<Backtick, ") is non-standard">>

\* lines 78-94: the lines about the file's own extension
FileExtensionLines(parseSettings) ==
    LET fileExtension == extname(parseSettings.filePath)
        extraFileExtensions == parseSettings.extraFileExtensions
    IN IF includes(DEFAULT_EXTRA_FILE_EXTENSIONS, fileExtension) THEN <<>>
       ELSE IF Len(extraFileExtensions) > 0
       THEN IF ~includes(extraFileExtensions, fileExtension)
            THEN << nonStandardExt(fileExtension)
                      \o <<". ", "It should be added to your existing ", Backtick, "parserOptions.extraFileExtensions", Backtick, ".">> >>
            ELSE <<>>
       ELSE << nonStandardExt(fileExtension)
                 \o <<". ", "You should add ", Backtick, "parserOptions.extraFileExtensions", Backtick, " to your config.">> >>

\* lines 61, 86, 92: set exactly where a line about the file's extension is pushed
hasMatchedAnError(parseSettings) == Len(FileExtensionLines(parseSettings)) > 0

GenericLinesAlways(parseSettings) ==
    LET described == IF Len(parseSettings.projects) = 1
                     THEN <<"that TSConfig does not", "that TSConfig">>
                     ELSE <<"none of those TSConfigs", "one of those TSConfigs">>
    IN << <<"However, ", described[1], " include this file. Either:">>,
          <<"- Change ", described[2], " to include this file">> >>

\* lines 96-108
GenericLines(parseSettings) ==
    IF hasMatchedAnError(parseSettings) THEN <<>>
    ELSE LET described == IF Len(parseSettings.projects) = 1
                          THEN <<"that TSConfig does not", "that TSConfig">>
                          ELSE <<"none of those TSConfigs", "one of those TSConfigs">>
         IN << <<"However, ", described[1], " include this file. Either:">>,
               <<"- Change ESLint's list of included files to not include this file">>,
               <<"- Change ", described[2], " to include this file">>,
               <<"- Create a new TSConfig that includes this file and include it in your parserOptions.project">>,
               <<"See the typescript-eslint docs for more info: https://typescript-eslint.io/troubleshooting/typed-linting#i-get-errors-telling-me-eslint-was-configured-to-run--however-that-tsconfig-does-not--none-of-those-tsconfigs-include-this-file">> >>

\* lines 58-108
errorLines(parseSettings) ==
    <<HeaderLine(parseSettings)>>
      \o forEachExtraExtension(parseSettings.extraFileExtensions)
      \o FileExtensionLines(parseSettings)
      \o GenericLines(parseSettings)

\* lines 29-111: what the call returns or throws
createProjectProgram(parseSettings, programsForProjects) ==
    LET astAndProgram == firstDefined(programsForProjects, parseSettings.filePath)
    IN IF astAndProgram # 0
       THEN [kind |-> "return", progs |-> <<programsForProjects[astAndProgram]>>,
             log |-> <<>>]
       ELSE [kind |-> "throw", progs |-> <<>>,
             log |-> <<Ev("Error", NoPath, parseSettings.filePath,
                          join(errorLines(parseSettings), "\n"), 0, "")>>]

Fallback(filePath, projects, extraFileExtensions, programsForProjects) ==
    LET result == createProjectProgram(
                     [filePath |-> filePath, projects |-> projects,
                      extraFileExtensions |-> extraFileExtensions],
                     programsForProjects)
    IN /\ op' = [Op("fallback", filePath, NoCode, projects, "")
                   EXCEPT !.programs = programsForProjects,
                          !.extraFileExtensions = extraFileExtensions]
       /\ log' = result.log
       /\ ret' = [kind |-> result.kind, progs |-> result.progs]
       /\ UNCHANGED <<knownWatchProgramMap, fileWatchCallbackTrackingMap,
                      folderWatchCallbackTrackingMap, programFileListCache,
                      tsconfigLastModifiedTimestampCache, parsedFilesSeenHash,
                      currentLintOperationState, disk, mtime, noInvalidation,
                      edits, handles>>

\* the arguments of a call: parseSettings and a list of pre-built programs
ParseSettingsAndPrograms ==
    {[Op("parseSettings", f, NoCode, ps, "")
        EXCEPT !.extraFileExtensions = x, !.programs = programs] :
       f \in FallbackFiles, ps \in ProjectLists,
       x \in SeqsUpTo(ExtraFileExtensionChoices, MaxExtraFileExtensions),
       programs \in SeqsUpTo(PrebuiltPrograms, MaxPrograms)}

InitFallback ==
    /\ knownWatchProgramMap = <<>>
    /\ fileWatchCallbackTrackingMap = EmptyMap
    /\ folderWatchCallbackTrackingMap = EmptyMap
    /\ programFileListCache = EmptyMap
    /\ tsconfigLastModifiedTimestampCache = EmptyMap
    /\ parsedFilesSeenHash = EmptyMap
    /\ currentLintOperationState = [code |-> NoCode, filePath |-> NoPath]
    /\ \E a \in SourceTexts \cup {undefined} :
          disk = [x \in SourceFiles \cup Descriptors |->
                    CASE x = TsconfigA -> "S"
                      [] x = TsconfigB -> "T"
                      [] x = FileA -> a
                      [] OTHER -> "v1"]
    /\ mtime = [d \in Descriptors |-> 1]
    /\ noInvalidation = FALSE
    /\ edits = 0
    /\ handles = {}
    /\ op \in ParseSettingsAndPrograms
    /\ log = <<>>
    /\ ret = NoRet

\* createProjectProgram called on a fixed list of programs
DoFallback ==
    /\ op.name = "parseSettings"
    /\ Fallback(op.file, op.projects, op.extraFileExtensions, op.programs)

\* createProjectProgram called on the programs a lint run just got from
\* getWatchProgramsForProjects
DoFallbackAfterResolve ==
    /\ op.name = "resolve"
    /\ ret.kind = "return"
    /\ \E x \in SeqsUpTo(ExtraFileExtensionChoices, MaxExtraFileExtensions) :
          Fallback(op.file, op.projects, x, ret.progs)

NextFallback == DoFallback \/ DoFallbackAfterResolve \/ DoResolve

SpecFallback == InitFallback /\ [][NextFallback]_vars

(***************************************************************************)
(* Claims about createProjectProgram                                       *)
(***************************************************************************)
Fell == op.name = "fallback"
Containing(programs, filePath) == {i \in 1..Len(programs) : filePath \in programs[i].srcs}
Message == log[1].q
CacheState == <<knownWatchProgramMap, fileWatchCallbackTrackingMap,
                folderWatchCallbackTrackingMap, programFileListCache,
                tsconfigLastModifiedTimestampCache, parsedFilesSeenHash,
                currentLintOperationState>>

\* C13: createProjectProgram over a list of pre-built programs returns the
\* first program in list order that contains the target file, throws the
\* constructed diagnostic exactly when no program of the list contains it,
\* and leaves every cache of the module as it was.
C13_FirstContainingOrThrow ==
    [][op'.name = "fallback" =>
         /\ CacheState' = CacheState
         /\ (ret'.kind = "throw") = (Containing(op'.programs, op'.file) = {})
         /\ ret'.kind = "throw" =>
               /\ Len(log') = 1
               /\ log'[1].e = "Error"
               /\ Len(log'[1].q) > 0
               /\ ret'.progs = <<>>
         /\ ret'.kind # "throw" =>
               /\ ret'.kind = "return"
               /\ log' = <<>>
               /\ \E i \in Containing(op'.programs, op'.file) :
                     /\ \A j \in Containing(op'.programs, op'.file) : i <= j
                     /\ ret'.progs = <<op'.programs[i]>>]_vars

\* two different programs of the list contain the file
C13_Witness ==
    /\ Fell
    /\ ret.kind = "return"
    /\ Cardinality(Containing(op.programs, op.file)) = 2
    /\ op.programs[1] # op.programs[2]

\* the call throws while the caches of the module are populated
C13_WitnessPopulated ==
    /\ Fell
    /\ ret.kind = "throw"
    /\ Len(knownWatchProgramMap) > 1
    /\ programFileListCache # EmptyMap

Occurrences(text, fragment) ==
    Cardinality({k \in 1..(Len(text) - Len(fragment) + 1) :
                    SubSeq(text, k, k + Len(fragment) - 1) = fragment})
Raised == Fell /\ ret.kind = "throw"
AddToConfig ==
    <<"You should add ", Backtick, "parserOptions.extraFileExtensions", Backtick,
      " to your config.">>
AddToExisting ==
    <<"It should be added to your existing ", Backtick,
      "parserOptions.extraFileExtensions", Backtick, ".">>
NonStandard == <<Backtick, ") is non-standard", ". ">>
NotIncluded == <<" include this file. Either:">>

\* C14: whatever the file extension, the extra-extensions list and the number
\* of descriptors, the diagnostic holds exactly one decisive cause: the
\* non-standard-extension message with exactly one of its two sub-messages
\* (the "add to your config" one exactly when the extra-extensions list is
\* empty), or the generic "not included" block, never both, never neither.
C14_OneDecisiveCause ==
    Raised =>
       LET config == Occurrences(Message, AddToConfig)
           existing == Occurrences(Message, AddToExisting)
           generic == Occurrences(Message, NotIncluded)
       IN /\ config + existing + generic = 1
          /\ Occurrences(Message, NonStandard) = config + existing
          /\ config = 1 => op.extraFileExtensions = <<>>
          /\ existing = 1 => op.extraFileExtensions # <<>>
          /\ generic = 1 =>
                /\ Occurrences(Message, <<"However, ">>) = 1
                /\ Occurrences(Message, <<"- Change ">>) = 1

\* the generic block is the cause for a .vue file whose extension is listed
C14_Witness ==
    /\ Raised
    /\ op.file = FileVue
    /\ op.extraFileExtensions = << <<"vue">>, <<".", "vue">> >>
    /\ Len(op.projects) = 2
    /\ Occurrences(Message, NotIncluded) = 1

\* C15: with exactly one descriptor, a .vue file and an empty
\* extra-extensions list, the message holds the text "You should add
\* parserOptions.extraFileExtensions to your config." exactly once, names
\* the single descriptor inline, with no "- " bullet list of descriptors,
\* and holds none of the generic remediation lines.
C15_VueSingleDescriptor ==
    (/\ Raised
     /\ Len(op.projects) = 1
     /\ op.file = FileVue
     /\ op.extraFileExtensions = <<>>) =>
       /\ Occurrences(Message, AddToConfig) = 1
       /\ Occurrences(Message,
             <<"parserOptions.project", Backtick, ":", " ", "<tsconfigRootDir>">>
               \o op.projects[1]) = 1
       /\ Occurrences(Message, <<"- ">>) = 0
       /\ \A i \in 1..Len(Message) :
             Message[i] \notin {"none of those TSConfigs", "that TSConfig does not",
                                "one of those TSConfigs", "that TSConfig",
                                "However, ", "- Change "}
       /\ Occurrences(Message, <<"\n">>) = 1

C15_Witness ==
    /\ Raised
    /\ Len(op.projects) = 1
    /\ op.file = FileVue
    /\ op.extraFileExtensions = <<>>
    /\ Len(op.programs) = 2

Entries(list, x) == {i \in 1..Len(list) : list[i] = x}
UnexpectedLine(x) ==
    <<"\n", "Found unexpected extension ", Backtick>> \o x
      \o <<Backtick, " specified with the ", Backtick,
           "parserOptions.extraFileExtensions", Backtick,
           " option. Did you mean ", Backtick, ".">> \o x \o <<Backtick, "?", "\n">>
UnnecessaryLine(x) ==
    <<"\n", "You unnecessarily included the extension ", Backtick>> \o x
      \o <<Backtick, " with the ", Backtick, "parserOptions.extraFileExtensions",
           Backtick,
           " option. This extension is already handled by the parser by default.",
           "\n">>

\* C16: every entry of the extra-extensions list is judged on its own: an
\* entry without a leading "." has its own "unexpected extension" line, an
\* entry equal to a default extension has its own "already handled by the
\* parser by default" line, one line per such entry and none for the other
\* entries, whichever decisive cause follows and whatever the descriptors.
C16_ExtraExtensionWarnings ==
    Raised =>
       /\ \A x \in ExtraFileExtensionChoices :
             /\ Occurrences(Message, UnexpectedLine(x)) =
                   IF x[1] # "." THEN Cardinality(Entries(op.extraFileExtensions, x))
                   ELSE 0
             /\ Occurrences(Message, UnnecessaryLine(x)) =
                   IF \E k \in 1..Len(DEFAULT_EXTRA_FILE_EXTENSIONS) :
                         DEFAULT_EXTRA_FILE_EXTENSIONS[k] = x
                   THEN Cardinality(Entries(op.extraFileExtensions, x))
                   ELSE 0
       /\ Occurrences(Message, <<"\n", "Found unexpected extension ">>)
            + Occurrences(Message, <<"\n", "You unnecessarily included the extension ">>)
            = Cardinality({i \in 1..Len(op.extraFileExtensions) :
                             op.extraFileExtensions[i] # <<".", "vue">>})

\* an entry without "." after a default one, before the non-standard cause
C16_Witness ==
    /\ Raised
    /\ op.extraFileExtensions = << <<".", "ts">>, <<"vue">> >>
    /\ op.file = FileVue
    /\ Occurrences(Message, AddToExisting) = 1
    /\ Occurrences(Message, UnexpectedLine(<<"vue">>)) = 1
    /\ Occurrences(Message, UnnecessaryLine(<<".", "ts">>)) = 1

\* the same entry given twice is reported twice
C16_WitnessRepeated ==
    /\ Raised
    /\ op.extraFileExtensions = << <<".", "ts">>, <<".", "ts">> >>
    /\ Len(op.projects) = 2
    /\ Occurrences(Message, NotIncluded) = 1

(***************************************************************************)
(* Claims about the stages of maybeInvalidateProgram                       *)
(***************************************************************************)
Calls(l) == Events(l, "mipBegin")
Min(a, b) == IF a < b THEN a ELSE b
\* the events of kind e in l before position k of the call begun at b
Before(l, b, k, e) == {j \in Within(l, b, e) : j < k}
DeletedIn(l, b) == {k \in Within(l, b, "fireFile") : l[k].s = "Deleted"}
PulledAt(l, b) == CHOOSE k \in Within(l, b, "mipPulled") : TRUE
\* the stage an event of a call belongs to, 0 for the provider's own events
StageOf(l, b, k) ==
    CASE l[k].e = "pull" -> CASE Cardinality(Before(l, b, k, "pull")) = 0 -> 1
                              [] Cardinality(Before(l, b, k, "pull")) = 1 -> 5
                              [] OTHER -> 7
      [] l[k].e = "mipPulled" -> 1
      [] l[k].e = "stat" -> 2
      [] l[k].e = "throw" /\ l[k].s \in {"statSync", "TypeError"} -> 2
      [] l[k].e = "fireFile" /\ l[k].s = "Changed" -> 2
      [] l[k].e = "visit" -> 4
      [] l[k].e = "fireFolder" -> 4
      [] l[k].e = "mipRepulled" -> 5
      [] l[k].e = "fireFile" /\ l[k].s = "Deleted" -> 6
      [] l[k].e = "mipEnd" ->
           CASE l[k].q = <<"Pull">> -> 1
             [] l[k].q = <<"DirectContainment">> -> 3
             [] l[k].q = <<"DirectoryEscalation">> -> 4
             [] l[k].q = <<"RepullAfterEscalation">> -> 5
             [] l[k].q \in {<<"DeletionInference">>, <<"Inconsistent">>} -> 6
             [] OTHER -> 7
      [] OTHER -> 0

\* C17: the stages of a call run in the order Pull, DescriptorCheck,
\* DirectContainment, DirectoryEscalation, RepullAfterEscalation,
\* DeletionInference, FinalRepull, and the call stops at the first success:
\* when the first snapshot holds the file no directory callback and no
\* deletion callback is fired; a deletion callback is fired only after a
\* directory of the walk had an entry in the directory table, the second
\* snapshot still lacked the file and the file reported deleted is missing
\* from the backing store; a call pulls at most three times.
C17_StagesInOrder ==
    op.name = "resolve" =>
       \A b \in Calls(log) :
          /\ \A i \in (b + 1)..Min(CallEnd(log, b), Len(log)) :
                LET stage == StageOf(log, b, i)
                IN stage # 0 =>
                      \A j \in (i + 1)..Min(CallEnd(log, b), Len(log)) :
                         StageOf(log, b, j) # 0 => stage <= StageOf(log, b, j)
          /\ Cardinality(Within(log, b, "pull")) <= 3
          /\ log[b + 1].e = "pull"
          /\ \A p \in Within(log, b, "mipPulled") :
                log[p].s = "contains" =>
                   /\ Within(log, b, "fireFolder") = {}
                   /\ Within(log, b, "visit") = {}
                   /\ DeletedIn(log, b) = {}
                   /\ Cardinality(Within(log, b, "pull")) = 1
                   /\ CallReturned(log, b) => CallResult(log, b) = "program"
          /\ \A k \in DeletedIn(log, b) :
                /\ log[PulledAt(log, b)].n > 0
                /\ log[PulledAt(log, b)].s = "lacks"
                /\ Before(log, b, k, "visit") # {}
                /\ Cardinality(Before(log, b, k, "pull")) = 2
                /\ \E r \in Before(log, b, k, "mipRepulled") : log[r].s = "lacks"
                /\ disk[log[k].q] = undefined
          /\ (CallReturned(log, b) /\ CallResult(log, b) = "program") =>
                \/ noInvalidation
                \/ (CallStage(log, b) = "DirectContainment"
                      /\ log[PulledAt(log, b)].s = "contains")
                \/ (CallStage(log, b) = "RepullAfterEscalation"
                      /\ \E r \in Within(log, b, "mipRepulled") : log[r].s = "contains")
                \/ CallStage(log, b) \in {"Inconsistent", "FinalRepull"}

\* a call that went through every stage: three pulls and a deletion callback
C17_Witness ==
    /\ op.name = "resolve"
    /\ \E b \in Calls(log) :
          /\ Cardinality(Within(log, b, "pull")) = 3
          /\ DeletedIn(log, b) # {}
          /\ Within(log, b, "fireFolder") # {}
          /\ CallReturned(log, b)
          /\ CallStage(log, b) = "FinalRepull"

(***************************************************************************)
(* Claims about hasTSConfigChanged                                         *)
(***************************************************************************)
\* the calls of maybeInvalidateProgram that reached hasTSConfigChanged
StatCalls(l) == {b \in Calls(l) : ~noInvalidation /\ Within(l, b, "mipPulled") # {}}
\* where the descriptor step of the call begun at b ends
StepEnd(l, b) ==
    IF Within(l, b, "visit") = {} THEN CallEnd(l, b)
    ELSE CHOOSE k \in Within(l, b, "visit") : \A j \in Within(l, b, "visit") : k <= j
ChangedFired(l, b) ==
    {k \in Within(l, b, "fireFile") : l[k].p = l[b].d /\ l[k].s = "Changed"}
StepDeletes(l, b) == {k \in Within(l, b, "cacheDelete") : k < StepEnd(l, b)}
\* a time recorded before the call differs from the current one
TimeDiffers(d) ==
    /\ Has(tsconfigLastModifiedTimestampCache, d)
    /\ tsconfigLastModifiedTimestampCache[d] # mtime[d]
DescriptorStep(l, b, d) ==
    IF TimeDiffers(d)
    THEN /\ {l[k].n : k \in ChangedFired(l, b)} =
               {cb.id : cb \in fileWatchCallbackTrackingMap[d]}
         /\ Cardinality(ChangedFired(l, b)) =
               Cardinality(fileWatchCallbackTrackingMap[d])
         /\ Cardinality(StepDeletes(l, b)) = 1
         /\ \A k \in ChangedFired(l, b) : \A j \in StepDeletes(l, b) : k < j
    ELSE /\ ChangedFired(l, b) = {}
         /\ StepDeletes(l, b) = {}

\* C18: hasTSConfigChanged always records the descriptor's current
\* modification time and reports a change exactly when a time recorded
\* earlier differs from it; on a change every file callback under the
\* descriptor's path is invoked with Changed and the descriptor's cache entry
\* is removed, otherwise neither happens.
C18_RecordsAndReports ==
    [][op'.name = "resolve" =>
         \A b \in StatCalls(log') :
            /\ Has(tsconfigLastModifiedTimestampCache', log'[b].d)
            /\ tsconfigLastModifiedTimestampCache'[log'[b].d] = mtime[log'[b].d]
            /\ Cardinality(Within(log', b, "stat")) = 1
            /\ DescriptorStep(log', b, log'[b].d)]_vars

\* the same for the calls whose descriptor is on the backing store
C18_RecordsAndReportsIfPresent ==
    [][op'.name = "resolve" =>
         \A b \in StatCalls(log') :
            IF disk[log'[b].d] = undefined
            THEN /\ Within(log', b, "stat") = {}
                 /\ ret'.kind = "throw"
                 /\ ChangedFired(log', b) = {}
                 /\ StepDeletes(log', b) = {}
                 /\ Has(tsconfigLastModifiedTimestampCache', log'[b].d) =
                       Has(tsconfigLastModifiedTimestampCache, log'[b].d)
                 /\ Has(tsconfigLastModifiedTimestampCache, log'[b].d) =>
                       tsconfigLastModifiedTimestampCache'[log'[b].d] =
                          tsconfigLastModifiedTimestampCache[log'[b].d]
            ELSE /\ Has(tsconfigLastModifiedTimestampCache', log'[b].d)
                 /\ tsconfigLastModifiedTimestampCache'[log'[b].d] = mtime[log'[b].d]
                 /\ Cardinality(Within(log', b, "stat")) = 1
                 /\ DescriptorStep(log', b, log'[b].d)]_vars

(***************************************************************************)
(* Claims about the directory walk                                         *)
(***************************************************************************)
Visits(l, b) == Within(l, b, "visit")
\* the k-th visit of the call begun at b
NthVisit(l, b, k) ==
    LET visits == Visits(l, b)
    IN CHOOSE v \in visits : Cardinality({u \in visits : u <= v}) = k
\* the callbacks invoked at the directory visited at position v
InvokedAt(l, b, v) ==
    LET visits == Visits(l, b)
    IN {k \in Within(l, b, "fireFolder") :
          v < k /\ \A u \in visits : u <= v \/ k < u}
Parent(filePath) == SubSeq(filePath, 1, Len(filePath) - 1)

\* C19: the walk ends for every target, after visiting each ancestor
\* directory once, innermost first, up to the directory that is its own
\* parent; at the target's own directory every callback found there is
\* invoked once, with that directory; at an ancestor above it every callback
\* found there is invoked twice, first with the target's directory and then
\* with the ancestor.
C19_WalkVisitsAncestors ==
    op.name = "resolve" =>
       \A b \in Calls(log) :
          Visits(log, b) # {} =>
             /\ Cardinality(Visits(log, b)) = Len(log[b].p)
             /\ \A k \in 1..Len(log[b].p) :
                   log[NthVisit(log, b, k)].p =
                      SubSeq(log[b].p, 1, Len(log[b].p) - k)
             /\ LET first == NthVisit(log, b, 1)
                IN \A j \in Within(log, b, "pull") \cup Within(log, b, "cacheDelete") :
                      j < first \/ \A v \in Visits(log, b) : v < j
             /\ \A v \in Visits(log, b) :
                   LET n == log[v].n
                       invoked == InvokedAt(log, b, v)
                       own == log[v].p = Parent(log[b].p)
                   IN /\ Cardinality({log[k].n : k \in invoked}) = n
                      /\ Cardinality(invoked) = IF own THEN n ELSE 2 * n
                      /\ \A k \in invoked :
                            /\ log[k].p = log[v].p
                            /\ log[k].s = "Changed"
                            /\ own => log[k].q = log[v].p
                            /\ ~own =>
                                  \/ /\ log[k].q = Parent(log[b].p)
                                     /\ k + 1 \in invoked
                                     /\ log[k + 1].n = log[k].n
                                     /\ log[k + 1].q = log[v].p
                                  \/ /\ log[k].q = log[v].p
                                     /\ k - 1 \in invoked
                                     /\ log[k - 1].n = log[k].n
                                     /\ log[k - 1].q = Parent(log[b].p)

\* a walk that found callbacks both at the target's directory and above it
C19_Witness ==
    /\ op.name = "resolve"
    /\ \E b \in Calls(log) :
          /\ CallReturned(log, b)
          /\ \E v, w \in Visits(log, b) :
                /\ log[v].p = Parent(log[b].p)
                /\ log[w].p # Parent(log[b].p)
                /\ log[v].n > 0
                /\ log[w].n > 0
                /\ InvokedAt(log, b, v) # {}
                /\ InvokedAt(log, b, w) # {}

(***************************************************************************)
(* Claims about deletion inference                                         *)
(***************************************************************************)
\* the calls whose second snapshot still lacked the target file
InferenceCalls(l) ==
    {b \in Calls(l) : \E r \in Within(l, b, "mipRepulled") : l[r].s = "lacks"}
Repulled(l, b) == CHOOSE r \in Within(l, b, "mipRepulled") : TRUE
After(l, b, e) == {k \in Within(l, b, e) : k > Repulled(l, b)}
UnitNow(d) == knownWatchProgramMap[CHOOSE i \in 1..Len(knownWatchProgramMap) :
                                      knownWatchProgramMap[i].key = d].watch
MissingNow(d) == {f \in UnitNow(d).roots : disk[f] = undefined}
FirstOf(files) ==
    CHOOSE f \in files :
       \A g \in files :
          \E i, j \in 1..Len(FileOrder) : FileOrder[i] = f /\ FileOrder[j] = g /\ i <= j

C20_WitnessNoneMissing ==
    /\ op.name = "resolve"
    /\ \E b \in InferenceCalls(log) :
          /\ UnitNow(log[b].d).roots # {}
          /\ MissingNow(log[b].d) = {}
          /\ CallResult(log, b) = "null"

(***************************************************************************)
(* maybeInvalidateProgram on units whose provider subscribed to only some  *)
(* of their files: both descriptors have a unit, and the file table holds  *)
(* the entries of the descriptors and of the files in `watched`            *)
(***************************************************************************)
InitCascade ==
    /\ \E a \in SourceTexts \cup {undefined} :
          disk = [x \in SourceFiles \cup Descriptors |->
                    CASE x = TsconfigA -> "S"
                      [] x = TsconfigB -> "T"
                      [] x = FileA -> a
                      [] OTHER -> "v1"]
    /\ mtime = [d \in Descriptors |-> 1]
    /\ noInvalidation = FALSE
    /\ edits = 0
    /\ handles = {}
    /\ \E watched \in SUBSET SourceFiles :
          LET blank == [known |-> <<>>, fileCbs |-> EmptyMap, folderCbs |-> EmptyMap,
                        cache |-> EmptyMap, ts |-> EmptyMap, hashes |-> EmptyMap,
                        cur |-> [code |-> NoCode, filePath |-> NoPath],
                        log |-> <<>>, status |-> "ok", results |-> <<>>,
                        hasCallback |-> FALSE,
                        mip |-> [kind |-> "none", prog |-> NullProgram]]
              st == CreateAndRegister(CreateAndRegister(blank, TsconfigA), TsconfigB)
          IN /\ knownWatchProgramMap = st.known
             /\ fileWatchCallbackTrackingMap =
                   [k \in {x \in DOMAIN st.fileCbs : x \in Descriptors \cup watched}
                      |-> st.fileCbs[k]]
             /\ folderWatchCallbackTrackingMap = st.folderCbs
             /\ programFileListCache = st.cache
             /\ tsconfigLastModifiedTimestampCache = st.ts
             /\ parsedFilesSeenHash = st.hashes
             /\ currentLintOperationState = st.cur
    /\ op = Op("init", NoPath, NoCode, <<>>, "")
    /\ log = <<>>
    /\ ret = NoRet

\* besides the source files, the first descriptor may be rewritten to
\* include p/t instead of p/s, which closes its subscription to p/s
NextCascade ==
    \/ DoResolve
    \/ DoWriteSource
    \/ WriteDescriptor(TsconfigA, "T")

SpecCascade == InitCascade /\ [][NextCascade]_vars

(***************************************************************************)
(* Claims about the internal inconsistency of lines 577-584                *)
(***************************************************************************)
\* the calls that found a missing root file with no entry in the file table
InconsistentCalls(l) ==
    {b \in InferenceCalls(l) :
        /\ MissingNow(l[b].d) # {}
        /\ ~Has(fileWatchCallbackTrackingMap, FirstOf(MissingNow(l[b].d)))}

\* C21: when a root file is missing from the backing store and the file
\* table has no entry for its path, maybeInvalidateProgram raises nothing,
\* fires no callback, does not pull again and returns the snapshot it pulled
\* last, a program that does not hold the target file, instead of null.
C21_InconsistencyDegraded ==
    op.name = "resolve" =>
       \A b \in InconsistentCalls(log) :
          /\ CallReturned(log, b)
          /\ CallResult(log, b) = "program"
          /\ CallStage(log, b) = "Inconsistent"
          /\ After(log, b, "fireFile") = {}
          /\ After(log, b, "fireFolder") = {}
          /\ After(log, b, "pull") = {}
          /\ After(log, b, "throw") = {}
          /\ log[b].p \notin UnitNow(log[b].d).srcs
          /\ log[CallEnd(log, b) + 1].e = "getTypeChecker"
          /\ log[CallEnd(log, b) + 1].d = log[b].d
          /\ (ret.kind = "return" /\ \A i \in 1..Len(ret.progs) :
                                        log[b].p \notin ret.progs[i].srcs)
                => \E i \in 1..Len(ret.progs) :
                      ret.progs[i] = [d |-> log[b].d,
                                      roots |-> UnitNow(log[b].d).roots,
                                      srcs |-> UnitNow(log[b].d).srcs]

C21_Witness ==
    /\ op.name = "resolve"
    /\ ret.kind = "return"
    /\ \E b \in InconsistentCalls(log) :
          /\ CallStage(log, b) = "Inconsistent"
          /\ \E i \in 1..Len(ret.progs) : ret.progs[i].d = log[b].d

(***************************************************************************)
(* Claims about the cache of root file sets                                *)
(***************************************************************************)
\* the notifications of a call that can alter what a unit holds: directory
\* changes, file deletions and descriptor changes
Notifications(l, b) ==
    Within(l, b, "fireFolder")
      \cup {k \in Within(l, b, "fireFile") : l[k].s = "Deleted" \/ l[k].p \in Descriptors}
CacheEvents(l, b, d) ==
    {k \in EventsFor(l, "cacheSet", d) \cup EventsFor(l, "cacheDelete", d) :
        k < CallEnd(l, b)}
\* whether the cache has an entry for d when the call begun at b returns,
\* given the cache as it was before the resolution
CachedAtReturn(l, b, d, before) ==
    IF CacheEvents(l, b, d) = {} THEN Has(before, d)
    ELSE l[CHOOSE k \in CacheEvents(l, b, d) :
              \A j \in CacheEvents(l, b, d) : j <= k].e = "cacheSet"

\* C22: when a descriptor-change, directory-change or file-deletion callback
\* of a unit is invoked during a resolution, the cache has no entry for the
\* unit's descriptor when the call of maybeInvalidateProgram that fired it
\* returns, also when that call runs for another descriptor.
C22_NotifiedUnitLosesEntry ==
    [][op'.name = "resolve" =>
         \A b \in Calls(log') :
            \A k \in Notifications(log', b) :
               (CallReturned(log', b) /\ log'[k].d \in Descriptors)
                  => ~CachedAtReturn(log', b, log'[k].d, programFileListCache)]_vars

\* the same for the unit the call runs for
C22_OwnUnitLosesEntry ==
    [][op'.name = "resolve" =>
         \A b \in Calls(log') :
            \A k \in Notifications(log', b) :
               (CallReturned(log', b) /\ log'[k].d = log'[b].d)
                  => ~CachedAtReturn(log', b, log'[k].d, programFileListCache)]_vars

(***************************************************************************)
(* Claims about edit detection                                             *)
(***************************************************************************)
\* the callbacks invoked for the target file itself, with Changed
EditFired(l, filePath) ==
    {k \in Events(l, "fireFile") :
        l[k].p = filePath /\ l[k].q = filePath /\ l[k].s = "Changed"}
RecordedHash(hashes, filePath) ==
    IF Has(hashes, filePath) THEN <<"hash", hashes[filePath]>> ELSE <<"none">>
RegisteredFor(filePath) ==
    IF Has(fileWatchCallbackTrackingMap, filePath)
    THEN fileWatchCallbackTrackingMap[filePath] ELSE {}

\* C23: a resolution first invokes every file callback registered for the
\* target file, with Changed and before anything else, exactly when the hash
\* of the request's code differs from the hash a provider read recorded last
\* for the path and a callback is registered; otherwise it invokes none of
\* them; the hash table changes only where the provider reads a file.
C23_EditDetection ==
    [][op'.name = "resolve" =>
         LET filePath == getCanonicalFileName(op'.file)
             fired == EditFired(log', filePath)
         IN /\ \A k \in fired : k <= Cardinality(fired)
            /\ IF /\ RecordedHash(parsedFilesSeenHash, filePath) #
                        <<"hash", createHash(getCodeText(op'.code))>>
                  /\ RegisteredFor(filePath) # {}
               THEN /\ {log'[k].n : k \in fired} = {cb.id : cb \in RegisteredFor(filePath)}
                    /\ Cardinality(fired) = Cardinality(RegisteredFor(filePath))
               ELSE fired = {}
            /\ \A x \in SourceFiles \cup Descriptors :
                  RecordedHash(parsedFilesSeenHash', x) # RecordedHash(parsedFilesSeenHash, x)
                     => \E r \in Events(log', "read") :
                           /\ log'[r].p = x
                           /\ log'[r].s # undefined
                           /\ r > Cardinality(fired)
                           /\ parsedFilesSeenHash'[x] = createHash(log'[r].s)]_vars

\* an unsaved edit of a watched file is announced to two callbacks
C23_Witness ==
    /\ op.name = "resolve"
    /\ Cardinality(EditFired(log, op.file)) > 1
    /\ log[1].e = "fireFile"
    /\ op.code.text = "v2"

\* the same code again is not announced
C23_WitnessSameCode ==
    /\ op.name = "resolve"
    /\ op.again
    /\ RegisteredFor(op.file) # {}
    /\ EditFired(log, op.file) = {}

(***************************************************************************)
(* Claims about the second loop of getWatchProgramsForProjects             *)
(***************************************************************************)
\* where the second loop takes up a descriptor: a cascade or a creation
Steps(l) == Events(l, "mipBegin") \cup Events(l, "create")
NthStep(l, k) == CHOOSE s \in Steps(l) : Cardinality({u \in Steps(l) : u <= s}) = k
\* the second loop pushed or returned a program for d
Answers(l, d) ==
    \/ EventsFor(l, "create", d) # {}
    \/ \E b \in EventsFor(l, "mipBegin", d) : CallReturned(l, b) /\ CallResult(l, b) = "program"
InRequestOrder ==
    /\ Cardinality(Steps(log)) <= Len(op.projects)
    /\ \A k \in 1..Cardinality(Steps(log)) : log[NthStep(log, k)].d = op.projects[k]
HasTarget(d) ==
    Has(programFileListCache, d) /\ getCanonicalFileName(op.file) \in programFileListCache[d]
FirstMatch ==
    LET m == Cardinality(Steps(log))
        d == op.projects[m]
    IN /\ Len(ret.progs) = 1
       /\ ret.progs[1] = [d |-> d, roots |-> UnitNow(d).roots, srcs |-> UnitNow(d).srcs]
       /\ Answers(log, d)
       /\ HasTarget(d)
       /\ log[Len(log)].e = "cacheSet"
       /\ log[Len(log)].d = d
       /\ \A j \in 1..(m - 1) : ~HasTarget(op.projects[j])
       /\ \A j \in (m + 1)..Len(op.projects) :
             \A k \in NthStep(log, 1)..Len(log) :
                log[k].e \in {"pull", "create", "mipBegin"} => log[k].d # op.projects[j]
NoMatch ==
    /\ Cardinality(Steps(log)) = Len(op.projects)
    /\ [i \in 1..Len(ret.progs) |-> ret.progs[i].d] =
          SelectSeq(op.projects, LAMBDA d : Answers(log, d))
    /\ \A i \in 1..Len(ret.progs) :
          /\ ret.progs[i] = [d |-> ret.progs[i].d,
                             roots |-> UnitNow(ret.progs[i].d).roots,
                             srcs |-> UnitNow(ret.progs[i].d).srcs]
          /\ ~HasTarget(ret.progs[i].d)
    /\ Requested(op.projects) \subseteq {knownWatchProgramMap[i].key :
                                           i \in 1..Len(knownWatchProgramMap)}
\* the step in progress raised: nothing is returned, and a descriptor whose
\* creation raised has no unit
StepRaised ==
    /\ ret.kind = "throw"
    /\ log[Len(log)].e = "throw"
    /\ log[Len(log)].s \in {"diagnostic", "statSync"}
    /\ log[Len(log)].s = "statSync" =>
          /\ log[NthStep(log, Cardinality(Steps(log)))].e = "mipBegin"
          /\ disk[op.projects[Cardinality(Steps(log))]] = undefined
    /\ log[NthStep(log, Cardinality(Steps(log)))].e = "create" =>
          \A i \in 1..Len(knownWatchProgramMap) :
             knownWatchProgramMap[i].key # op.projects[Cardinality(Steps(log))]

\* the claim as stated
C24_StopsAtFirstMatch ==
    (op.name = "resolve" /\ Steps(log) # {}) =>
       /\ InRequestOrder
       /\ ret.kind = "return"
       /\ (FirstMatch \/ NoMatch)

\* C24: on a cache miss the requested descriptors are taken up in request
\* order; the call returns the one program of the first descriptor whose unit
\* has the target file in its root file set, with nothing done for the
\* descriptors after it, or, when none matches, the programs of the
\* descriptors the cascade did not answer with null and of the new units, in
\* request order, every requested descriptor then having a unit; or the
\* step in progress raises and nothing is returned.
C24_StopsAtFirstMatchOrRaises ==
    (op.name = "resolve" /\ Steps(log) # {}) =>
       /\ InRequestOrder
       /\ \/ ret.kind = "return" /\ (FirstMatch \/ NoMatch)
          \/ StepRaised

\* the second of two descriptors matches after the first was answered by a
\* program without the file
C24_Witness ==
    /\ op.name = "resolve"
    /\ ret.kind = "return"
    /\ Cardinality(Steps(log)) = 2
    /\ FirstMatch
    /\ Answers(log, op.projects[1])

\* no descriptor matches: a refreshed and a new unit are returned
C24_WitnessNoMatch ==
    /\ op.name = "resolve"
    /\ ret.kind = "return"
    /\ NoMatch
    /\ Len(ret.progs) = 2
    /\ Events(log, "create") # {}
    /\ Events(log, "mipBegin") # {}


(***************************************************************************)
(* Claims about the coherence of the tables                                *)
(***************************************************************************)
\* the root file set of the snapshot the unit of d yields when pulled now
PulledRoots(d) == Program(getProgram(Cur, d), d).roots
PullRaises(d) == Threw(getProgram(Cur, d))

\* C25: between resolution calls a cached root file set of a descriptor
\* equals the root file set of the snapshot its unit yields when pulled with
\* the notifications delivered so far.
C25_CacheCoherent ==
    \A d \in KnownKeys(knownWatchProgramMap) :
       (Has(programFileListCache, d) /\ ~PullRaises(d)) =>
          programFileListCache[d] = PulledRoots(d)


\* the notifications a resolution delivered to the unit of d: its descriptor
\* changed, a directory changed, a root file was deleted
NotifiedAt(l, d) ==
    {k \in 1..Len(l) :
        /\ l[k].d = d
        /\ \/ l[k].e = "fireFolder"
           \/ l[k].e = "fireFile" /\ (l[k].s = "Deleted" \/ l[k].p \in Descriptors)}
\* C25, second part: a root file set cached after a notification to the
\* unit comes from a snapshot pulled after that notification.
C25_RefilledFromLaterPull ==
    op.name = "resolve" =>
       \A d \in Descriptors :
          \A k \in NotifiedAt(log, d) :
             \A c \in EventsFor(log, "cacheSet", d) :
                c > k => \E p \in EventsFor(log, "pull", d) : k < p /\ p < c


\* C26: every descriptor with a unit in knownWatchProgramMap has a
\* callback-set entry under its own path in the file subscription table, and
\* the descriptor staleness step never fails on a missing entry; a reset
\* keeps this, since it empties both tables.
C26_RegisteredHasFileEntry ==
    /\ \A i \in 1..Len(knownWatchProgramMap) :
          Has(fileWatchCallbackTrackingMap, knownWatchProgramMap[i].key)
    /\ \A k \in 1..Len(log) : ~(log[k].e = "throw" /\ log[k].s = "TypeError")
    /\ op.name = "clear" =>
          knownWatchProgramMap = <<>> /\ fileWatchCallbackTrackingMap = EmptyMap

\* the staleness step fires the callback set of a registered descriptor
C26_Witness ==
    /\ op.name = "resolve"
    /\ \E k \in Events(log, "fireFile") :
          /\ log[k].s = "Changed"
          /\ log[k].p \in Descriptors
          /\ log[k].p \in Registered
          /\ log[k].n \in {c.id : c \in fileWatchCallbackTrackingMap[log[k].p]}

\* a unit registered again by the resolution that follows a reset
C26_WitnessAfterReset ==
    /\ op.name = "resolve"
    /\ op.afterClear
    /\ Registered # {}


\* the calls whose directory walk invoked no callback
SilentWalks(l) ==
    {b \in Calls(l) : Within(l, b, "visit") # {} /\ Within(l, b, "fireFolder") = {}}
\* the silent walks that met a directory entry all of whose handles are closed
ClosedOnly(l) ==
    {b \in SilentWalks(l) : \E v \in Within(l, b, "visit") : l[v].s = "entry" /\ l[v].n = 0}
AfterWalk(l, b, e) ==
    {k \in Within(l, b, e) : \E v \in Within(l, b, "visit") : v < k}

\* C27: a walk that invokes no callback at all, whether its directories were
\* never subscribed or have had every subscription closed, ends the call
\* with null, without another pull and without removing the descriptor's
\* cached root file set.
C27_ClosedCountsAsNone ==
    op.name = "resolve" =>
       \A b \in SilentWalks(log) :
          /\ CallReturned(log, b)
          /\ CallResult(log, b) = "null"
          /\ CallStage(log, b) = "DirectoryEscalation"
          /\ AfterWalk(log, b, "pull") = {}
          /\ AfterWalk(log, b, "cacheDelete") = {}

\* the same for the walks that met no directory entry at all
C27_NeverSubscribedIsNone ==
    op.name = "resolve" =>
       \A b \in SilentWalks(log) \ ClosedOnly(log) :
          /\ CallReturned(log, b)
          /\ CallResult(log, b) = "null"
          /\ CallStage(log, b) = "DirectoryEscalation"
          /\ AfterWalk(log, b, "pull") = {}
          /\ AfterWalk(log, b, "cacheDelete") = {}

====
